---- MODULE Spec2Model ----
(***************************************************************************)
(* A model of the berth-code extension: the virtual filesystem adapter     *)
(* (BerthFileSystemProvider) over the remote file client (FilesService)    *)
(* and the transport (ApiClient), and the session manager (AuthService).   *)
(*                                                                         *)
(* JavaScript strings are sequences of one-character strings, so that      *)
(* split, join, parseInt and the UTF-8 codecs are computed, not assumed.   *)
(* An optional value (T | undefined) is a sequence of length 0 or 1.       *)
(***************************************************************************)
EXTENDS Integers, Sequences, FiniteSets, TLC

VARIABLES
    authToken,      \* ApiClient.authToken of the adapter's client
    store,          \* the backend's files: a set of [sid, stack, path, isDirectory, content]
    fsOp,           \* the adapter operation that ran last: its input and its outcome
    fsLog,          \* what that operation did, in order: requests sent, events fired
    lastWrite,      \* the writeFile that succeeded just before, if any (an optional)
    currentUser,    \* AuthService.currentUser
    accessToken,    \* AuthService.accessToken
    refreshToken,   \* AuthService.refreshToken
    secretStorage,  \* vscode.SecretStorage: key -> optional string
    authContext,    \* the 'berth.authenticated' context flag of the host
    authOp,         \* the AuthService operation that ran last, and what it returned
    authLog,        \* the requests that operation sent, in order
    treeKind,       \* the class of the tree provider that activate() has constructed
    currentServer,  \* its currentServer (an optional server id)
    currentStack,   \* its currentStack (an optional stack name)
    cmd,            \* the selection commands in flight: where each is suspended, its locals
    selOp,          \* the step of a selection command that ran last
    treeOp,         \* the chmodFile or chownFile of the tree provider that ran last
    filesOp,        \* the FilesService call that ran last, and the requests it sent
    opened,         \* the URI openFile or openStackInExplorer built last, and its parse
    boot,           \* activation: where initializeAuth is, and the auth command that ran last
    logins          \* the login() calls in flight: where each is suspended, its response

fsVars == <<authToken, store, fsOp, fsLog, lastWrite>>
authVars == <<currentUser, accessToken, refreshToken, secretStorage, authContext, authOp, authLog>>
uiVars == <<treeKind, currentServer, currentStack, cmd, selOp, treeOp, filesOp>>
restVars == <<opened, boot, logins>>
vars == <<authToken, store, fsOp, fsLog, lastWrite,
          currentUser, accessToken, refreshToken, secretStorage, authContext, authOp, authLog,
          treeKind, currentServer, currentStack, cmd, selOp, treeOp, filesOp,
          opened, boot, logins>>

----------------------------------------------------------------------------
(* Bounds of the model *)

\* The most path segments (stack name included) of a URI an operation is given.
MaxDepth == 3
\* The most entries the backend holds; a request that would exceed it fails.
MaxFiles == 2

----------------------------------------------------------------------------
(* JavaScript values *)

NULL == "null"
UNDEF == "undefined"
None == <<>>
Some(x) == <<x>>

\* String.prototype.split('/'), on a sequence of characters
RECURSIVE Split(_)
Split(s) ==
    IF \A i \in 1..Len(s) : s[i] # "/"
    THEN <<s>>
    ELSE LET i == CHOOSE k \in 1..Len(s) : s[k] = "/" /\ \A j \in 1..(k-1) : s[j] # "/"
         IN  <<SubSeq(s, 1, i-1)>> \o Split(SubSeq(s, i+1, Len(s)))

\* Array.prototype.join('/')
RECURSIVE Join(_)
Join(parts) ==
    IF parts = <<>> THEN <<>>
    ELSE IF Len(parts) = 1 THEN parts[1]
    ELSE parts[1] \o <<"/">> \o Join(Tail(parts))

NonEmpty(part) == Len(part) > 0

\* uri.path.split('/').filter(part => part.length > 0)
PathParts(uri) == SelectSeq(Split(uri.path), NonEmpty)

\* Array.prototype.slice(from, to), zero-based, to exclusive
Slice(parts, from, to) == SubSeq(parts, from + 1, to)

Digits == {"0", "1", "2", "3", "4", "5", "6", "7", "8", "9"}

DigitVal(c) ==
    CASE c = "0" -> 0 [] c = "1" -> 1 [] c = "2" -> 2 [] c = "3" -> 3 [] c = "4" -> 4
      [] c = "5" -> 5 [] c = "6" -> 6 [] c = "7" -> 7 [] c = "8" -> 8 [] c = "9" -> 9

RECURSIVE LeadingDigits(_, _)
LeadingDigits(s, acc) ==
    IF s = <<>> \/ Head(s) \notin Digits THEN acc
    ELSE LeadingDigits(Tail(s), [n |-> acc.n + 1, val |-> acc.val * 10 + DigitVal(Head(s))])

\* parseInt(string): an optional sign, then the longest prefix of decimal digits;
\* NaN when there is none. (The model's strings hold no white space and no "0x".)
parseInt(s) ==
    LET signed == s # <<>> /\ Head(s) \in {"-", "+"}
        body == IF signed THEN Tail(s) ELSE s
        d == LeadingDigits(body, [n |-> 0, val |-> 0])
    IN  IF d.n = 0 THEN [nan |-> TRUE, val |-> 0]
        ELSE [nan |-> FALSE, val |-> IF signed /\ Head(s) = "-" THEN 0 - d.val ELSE d.val]

isNaN(n) == n.nan

----------------------------------------------------------------------------
(* UTF-8: TextDecoder().decode and TextEncoder().encode *)

\* The UTF-8 decoder of the Encoding Standard, from byte i on; a string is the
\* sequence of its code points.
RECURSIVE Utf8Decode(_, _, _, _, _, _, _)
Utf8Decode(bytes, i, cp, seen, needed, lower, upper) ==
    IF i > Len(bytes)
    THEN IF needed # 0 THEN <<65533>> ELSE <<>>
    ELSE LET b == bytes[i] IN
         IF needed = 0
         THEN IF b <= 127 THEN <<b>> \o Utf8Decode(bytes, i + 1, 0, 0, 0, 128, 191)
              ELSE IF b >= 194 /\ b <= 223
                   THEN Utf8Decode(bytes, i + 1, b % 32, 0, 1, 128, 191)
              ELSE IF b >= 224 /\ b <= 239
                   THEN Utf8Decode(bytes, i + 1, b % 16, 0, 2,
                                   IF b = 224 THEN 160 ELSE 128,
                                   IF b = 237 THEN 159 ELSE 191)
              ELSE IF b >= 240 /\ b <= 244
                   THEN Utf8Decode(bytes, i + 1, b % 8, 0, 3,
                                   IF b = 240 THEN 144 ELSE 128,
                                   IF b = 244 THEN 143 ELSE 191)
              ELSE <<65533>> \o Utf8Decode(bytes, i + 1, 0, 0, 0, 128, 191)
         ELSE IF b < lower \/ b > upper
              THEN <<65533>> \o Utf8Decode(bytes, i, 0, 0, 0, 128, 191)
              ELSE IF seen + 1 = needed
                   THEN <<cp * 64 + (b % 64)>> \o Utf8Decode(bytes, i + 1, 0, 0, 0, 128, 191)
                   ELSE Utf8Decode(bytes, i + 1, cp * 64 + (b % 64), seen + 1, needed, 128, 191)

\* new TextDecoder().decode(content): UTF-8, errors replaced by U+FFFD, and a
\* leading byte order mark dropped (ignoreBOM is false by default).
TextDecode(bytes) ==
    LET s == Utf8Decode(bytes, 1, 0, 0, 0, 128, 191)
    IN  IF s # <<>> /\ Head(s) = 65279 THEN Tail(s) ELSE s

EncodeCodePoint(c) ==
    IF c < 128 THEN <<c>>
    ELSE IF c < 2048 THEN <<192 + (c \div 64), 128 + (c % 64)>>
    ELSE IF c < 65536 THEN <<224 + (c \div 4096), 128 + ((c \div 64) % 64), 128 + (c % 64)>>
    ELSE <<240 + (c \div 262144), 128 + ((c \div 4096) % 64),
           128 + ((c \div 64) % 64), 128 + (c % 64)>>

\* new TextEncoder().encode(string)
RECURSIVE TextEncode(_)
TextEncode(s) ==
    IF s = <<>> THEN <<>> ELSE EncodeCodePoint(Head(s)) \o TextEncode(Tail(s))

----------------------------------------------------------------------------
(* The backend behind the HTTP API: one server, one stack, a tree of files *)

BackendServers == {1}
BackendStacks == {<<"a">>}

\* What a request may meet instead of the backend's own answer: the network
\* failing (fetch throws), or an error status, with or without a message in its body.
NoFault == [net |-> FALSE, status |-> 200, msg |-> None]
Faults ==
    {[net |-> TRUE, status |-> 0, msg |-> None],
     [net |-> FALSE, status |-> 401, msg |-> None],
     [net |-> FALSE, status |-> 403, msg |-> None],
     [net |-> FALSE, status |-> 404, msg |-> None],
     [net |-> FALSE, status |-> 500, msg |-> Some("disk failure")]}
Responses == {NoFault} \cup Faults

\* The segments of a path the backend was sent
ReqParts(path) == SelectSeq(Split(path), NonEmpty)

IsPrefix(p, q) == Len(p) <= Len(q) /\ SubSeq(q, 1, Len(p)) = p

InScope(req) == req.sid \in BackendServers /\ req.stack \in BackendStacks

Lookup(st, req, parts) ==
    {r \in st : r.sid = req.sid /\ r.stack = req.stack /\ ReqParts(r.path) = parts}

Under(st, req, parts) ==
    {r \in st : r.sid = req.sid /\ r.stack = req.stack /\ IsPrefix(parts, ReqParts(r.path))}

DirExists(st, req, parts) ==
    /\ InScope(req)
    /\ \/ parts = <<>>
       \/ \E r \in Lookup(st, req, parts) : r.isDirectory

ParentOf(parts) == SubSeq(parts, 1, Len(parts) - 1)

Reply(status, body, st) == [status |-> status, msg |-> None, body |-> body, store |-> st]

\* One raw entry of a listing, as the JSON carries it
RawEntry(r) ==
    [name |-> ReqParts(r.path)[Len(ReqParts(r.path))], path |-> r.path,
     is_directory |-> r.isDirectory, size |-> Len(TextEncode(r.content))]

BackendList(req, st) ==
    LET dir == IF req.path = None THEN <<>> ELSE ReqParts(req.path[1])
    IN  IF ~DirExists(st, req, dir) THEN Reply(404, {}, st)
        ELSE Reply(200,
                   [path |-> Join(dir),
                    entries |-> {RawEntry(r) : r \in {x \in Under(st, req, dir) :
                                                Len(ReqParts(x.path)) = Len(dir) + 1}}],
                   st)

BackendRead(req, st) ==
    LET parts == ReqParts(req.path[1])
        hit == Lookup(st, req, parts)
    IN  IF hit = {} \/ ~InScope(req) THEN Reply(404, {}, st)
        ELSE LET r == CHOOSE x \in hit : TRUE
             IN  IF r.isDirectory THEN Reply(400, {}, st)
                 ELSE Reply(200, [path |-> r.path, content |-> r.content], st)

BackendWrite(req, st) ==
    LET parts == ReqParts(req.path[1])
        hit == Lookup(st, req, parts)
        new == [sid |-> req.sid, stack |-> req.stack, path |-> Join(parts),
                isDirectory |-> FALSE, content |-> req.arg[1]]
    IN  IF parts = <<>> \/ ~DirExists(st, req, ParentOf(parts)) THEN Reply(404, {}, st)
        ELSE IF \E r \in hit : r.isDirectory THEN Reply(400, {}, st)
        ELSE IF Cardinality((st \ hit) \cup {new}) > MaxFiles THEN Reply(507, {}, st)
        ELSE Reply(200, {}, (st \ hit) \cup {new})

BackendMkdir(req, st) ==
    LET parts == ReqParts(req.path[1])
        new == [sid |-> req.sid, stack |-> req.stack, path |-> Join(parts),
                isDirectory |-> TRUE, content |-> <<>>]
    IN  IF parts = <<>> \/ ~DirExists(st, req, ParentOf(parts)) THEN Reply(404, {}, st)
        ELSE IF Lookup(st, req, parts) # {} THEN Reply(409, {}, st)
        ELSE IF Cardinality(st \cup {new}) > MaxFiles THEN Reply(507, {}, st)
        ELSE Reply(200, {}, st \cup {new})

BackendDelete(req, st) ==
    LET parts == ReqParts(req.path[1])
    IN  IF parts = <<>> \/ Lookup(st, req, parts) = {} THEN Reply(404, {}, st)
        ELSE Reply(200, {}, st \ Under(st, req, parts))

BackendRename(req, st) ==
    LET old == ReqParts(req.path[1])
        new == ReqParts(req.arg[1])
        moved == Under(st, req, old)
        Move(r) == [r EXCEPT !.path =
                        Join(new \o SubSeq(ReqParts(r.path), Len(old) + 1, Len(ReqParts(r.path))))]
    IN  IF old = <<>> \/ new = <<>> \/ Lookup(st, req, old) = {}
           \/ ~DirExists(st, req, ParentOf(new)) \/ IsPrefix(old, ParentOf(new))
        THEN Reply(404, {}, st)
        ELSE IF Lookup(st, req, new) # {} THEN Reply(409, {}, st)
        ELSE Reply(200, {}, (st \ moved) \cup {Move(r) : r \in moved})

BackendCopy(req, st) ==
    LET old == ReqParts(req.path[1])
        new == ReqParts(req.arg[1])
        copied == Under(st, req, old)
        Copy(r) == [r EXCEPT !.path =
                        Join(new \o SubSeq(ReqParts(r.path), Len(old) + 1, Len(ReqParts(r.path))))]
    IN  IF old = <<>> \/ new = <<>> \/ Lookup(st, req, old) = {}
           \/ ~DirExists(st, req, ParentOf(new)) \/ IsPrefix(old, ParentOf(new))
        THEN Reply(404, {}, st)
        ELSE IF Lookup(st, req, new) # {} THEN Reply(409, {}, st)
        ELSE IF Cardinality(st \cup {Copy(r) : r \in copied}) > MaxFiles THEN Reply(507, {}, st)
        ELSE Reply(200, {}, st \cup {Copy(r) : r \in copied})

\* The bytes of a file, as the download endpoint answers them
BackendDownload(req, st) ==
    LET hit == Lookup(st, req, ReqParts(req.path[1]))
    IN  IF hit = {} \/ ~InScope(req) THEN Reply(404, {}, st)
        ELSE LET r == CHOOSE x \in hit : TRUE
             IN  IF r.isDirectory THEN Reply(400, {}, st)
                 ELSE Reply(200, TextEncode(r.content), st)

\* chmod and chown: the tree keeps no modes and no owners, so they change nothing
\* the model can see; they answer 404 for a path that is not there.
BackendChange(req, st) ==
    IF Lookup(st, req, ReqParts(req.path[1])) = {} \/ ~InScope(req) THEN Reply(404, {}, st)
    ELSE Reply(200, {}, st)

BackendStats(req, st) ==
    LET dir == IF req.path = None THEN <<>> ELSE ReqParts(req.path[1])
        below == {r \in Under(st, req, dir) : ReqParts(r.path) # dir}
    IN  IF ~DirExists(st, req, dir) THEN Reply(404, {}, st)
        ELSE Reply(200,
                   [totalFiles |-> Cardinality({r \in below : ~r.isDirectory}),
                    totalDirectories |-> Cardinality({r \in below : r.isDirectory})],
                   st)

Backend(req, st) ==
    CASE req.ep = "list"   -> BackendList(req, st)
      [] req.ep = "read"   -> BackendRead(req, st)
      [] req.ep = "write"  -> BackendWrite(req, st)
      [] req.ep = "mkdir"  -> BackendMkdir(req, st)
      [] req.ep = "delete" -> BackendDelete(req, st)
      [] req.ep = "rename" -> BackendRename(req, st)
      [] req.ep = "copy"   -> BackendCopy(req, st)
      [] req.ep = "upload" -> BackendWrite(req, st)
      [] req.ep = "download" -> BackendDownload(req, st)
      [] req.ep \in {"chmod", "chown"} -> BackendChange(req, st)
      [] req.ep = "stats"  -> BackendStats(req, st)

----------------------------------------------------------------------------
(* ApiClient and FilesService *)

Request(ep, sid, stack, path, arg) ==
    [ep |-> ep, sid |-> sid, stack |-> stack, path |-> path, arg |-> arg]

\* One entry of an operation's log
Sent(req, status) == [kind |-> "request", req |-> req, status |-> status, batch |-> <<>>]
Fired(batch) == [kind |-> "event", req |-> None, status |-> 0, batch |-> batch]

NoErr == [kind |-> "none", prefix |-> "", text |-> "", status |-> 0]
Err(kind, prefix, text, status) ==
    [kind |-> kind, prefix |-> prefix, text |-> text, status |-> status]

\* What an asynchronous function did: returned val or threw err, after the log,
\* leaving the backend as store.
Return(val, log, st) == [ok |-> TRUE, err |-> NoErr, val |-> val, log |-> log, store |-> st]
Throw(err, log, st) == [ok |-> FALSE, err |-> err, val |-> NULL, log |-> log, store |-> st]

\* The Response that fetch resolves with
Response(r) ==
    [threw |-> FALSE, status |-> r.status, msg |-> r.msg, body |-> r.body, store |-> r.store]

\* ApiClient.request: one fetch; it throws when the network fails.
request(req, fault) ==
    IF fault.net
    THEN [threw |-> TRUE, status |-> 0, msg |-> None, body |-> {}, store |-> store]
    ELSE IF fault # NoFault
    THEN [threw |-> FALSE, status |-> fault.status, msg |-> fault.msg, body |-> {},
          store |-> store]
    ELSE Response(Backend(req, store))

ResponseOk(r) == r.status >= 200 /\ r.status <= 299

\* Without the messages of 401, 403 and 404
handleError_Unspecialised(r, defaultMessage) ==
    Err("Error", "", IF r.msg # None THEN r.msg[1] ELSE defaultMessage, r.status)

\* FilesService.handleError: the message of the Error it throws
handleError(r, defaultMessage) ==
    LET errorMessage ==
            IF r.status = 401 THEN "Authentication failed"
            ELSE IF r.status = 403 THEN "Access denied - insufficient permissions"
            ELSE IF r.status = 404 THEN "Resource not found"
            ELSE IF r.msg # None THEN r.msg[1]
            ELSE defaultMessage
    IN  Err("Error", "", errorMessage, r.status)

\* What a FilesService call makes of the response r to its request: the JSON
\* body, or the Error of handleError, or the error fetch threw
Answered(req, r, defaultMessage) ==
    IF r.threw THEN Throw(Err("Error", "", "fetch failed", 0), <<Sent(req, r.status)>>, r.store)
    ELSE IF ~ResponseOk(r)
    THEN Throw(handleError(r, defaultMessage), <<Sent(req, r.status)>>, r.store)
    ELSE Return(r.body, <<Sent(req, r.status)>>, r.store)

\* A FilesService call: one request, then the body or the error.
Call(req, fault, defaultMessage) == Answered(req, request(req, fault), defaultMessage)

\* The optional query of listDirectory: path ? `?path=...` : ""
Truthy(opt) == opt # None /\ opt[1] # <<>>

FileEntry(entry) ==
    [name |-> entry.name, path |-> entry.path,
     isDirectory |-> (entry.is_directory = TRUE), size |-> entry.size]

\* transformedData of listDirectory
Listing(called) ==
    IF ~called.ok THEN called
    ELSE [called EXCEPT !.val = [path |-> called.val.path,
                                 entries |-> {FileEntry(e) : e \in called.val.entries}]]

listDirectory(serverId, stackName, path, fault) ==
    Listing(Call(Request("list", serverId, stackName, IF Truthy(path) THEN path ELSE None, None),
                 fault, "Failed to list directory"))

\* (await response.json()) as FileContent
FileContent(called) == called

readFile(serverId, stackName, path, fault) ==
    FileContent(Call(Request("read", serverId, stackName, Some(path), None),
                     fault, "Failed to read file"))

\* Promise<void>: the body is not read
Void(called) == IF called.ok THEN [called EXCEPT !.val = NULL] ELSE called

writeFile(serverId, stackName, path, content, fault) ==
    Void(Call(Request("write", serverId, stackName, Some(path), Some(content)),
              fault, "Failed to write file"))

createDirectory(serverId, stackName, path, fault) ==
    Void(Call(Request("mkdir", serverId, stackName, Some(path), None),
              fault, "Failed to create directory"))

deleteFile(serverId, stackName, path, fault) ==
    Void(Call(Request("delete", serverId, stackName, Some(path), None),
              fault, "Failed to delete"))

renameFile(serverId, stackName, oldPath, newPath, fault) ==
    Void(Call(Request("rename", serverId, stackName, Some(oldPath), Some(newPath)),
              fault, "Failed to rename"))

copyFile(serverId, stackName, sourcePath, targetPath, fault) ==
    Void(Call(Request("copy", serverId, stackName, Some(sourcePath), Some(targetPath)),
              fault, "Failed to copy"))

\* filePath of uploadFile: path ? `${path}/${filename}` : filename
UploadPath(path, filename) == IF path # <<>> THEN path \o <<"/">> \o filename ELSE filename

uploadFile(serverId, stackName, path, file, filename, fault) ==
    Void(Call(Request("upload", serverId, stackName, Some(UploadPath(path, filename)), Some(file)),
              fault, "Failed to upload file"))

\* await response.arrayBuffer()
ArrayBuffer(called) == called

downloadFile(serverId, stackName, path, fault) ==
    ArrayBuffer(Call(Request("download", serverId, stackName, Some(path), None),
                     fault, "Failed to download file"))

\* The JSON bodies of the chmod and chown requests. JSON.stringify leaves out a
\* property whose value is undefined: an absent id is None.
ChmodRequest(mode, recursive) == [mode |-> mode, recursive |-> recursive]
ChownRequest(owner_id, group_id, recursive) ==
    [owner_id |-> owner_id, group_id |-> group_id, recursive |-> recursive]

chmodFile(serverId, stackName, path, body, fault) ==
    Void(Call(Request("chmod", serverId, stackName, Some(path), Some(body)),
              fault, "Failed to change permissions"))

chownFile(serverId, stackName, path, body, fault) ==
    Void(Call(Request("chown", serverId, stackName, Some(path), Some(body)),
              fault, "Failed to change ownership"))

\* (await response.json()) as DirectoryStats
DirectoryStats(called) == called

getDirectoryStats(serverId, stackName, path, fault) ==
    DirectoryStats(Call(Request("stats", serverId, stackName,
                                IF Truthy(path) THEN path ELSE None, None),
                        fault, "Failed to get directory stats"))

----------------------------------------------------------------------------
(* BerthFileSystemProvider *)

Unavailable == Err("Unavailable", "", "Not authenticated to Berth server", 0)
FileNotFound == Err("FileNotFound", "", "", 0)
FileIsADirectory == Err("FileIsADirectory", "", "", 0)
InvalidFormat == Err("Error", "", "Invalid berth URI format", 0)
InvalidServerId == Err("Error", "", "Invalid server ID in URI", 0)

\* new Error(`${prefix}: ${error.message}`)
Wrap(prefix, e) == Err("Error", prefix, e.text, e.status)

\* A gate that lets everything through (the adapter before it had one)
isAuthenticated_Ungated == TRUE

isAuthenticated == authToken # NULL

Stat(type, size) == [type |-> type, size |-> size]
Event(type, uri) == [type |-> type, uri |-> uri]

\* A stat that makes up a file when the listing has no such name
StatOf_Fabricated(listing, fileName) ==
    IF ~listing.ok THEN Throw(FileNotFound, listing.log, listing.store)
    ELSE IF \E e \in listing.val.entries : e.name = fileName
    THEN LET entry == CHOOSE e \in listing.val.entries : e.name = fileName
         IN  Return(Stat(IF entry.isDirectory THEN "Directory" ELSE "File", entry.size),
                    listing.log, listing.store)
    ELSE Return(Stat("File", 0), listing.log, listing.store)

\* getFileStat once the parent's listing has come back (or has thrown)
StatOf(listing, fileName) ==
    IF ~listing.ok THEN Throw(FileNotFound, listing.log, listing.store)
    ELSE IF \E e \in listing.val.entries : e.name = fileName
    THEN LET entry == CHOOSE e \in listing.val.entries : e.name = fileName
         IN  Return(Stat(IF entry.isDirectory THEN "Directory" ELSE "File", entry.size),
                    listing.log, listing.store)
    ELSE Throw(FileNotFound, listing.log, listing.store)

\* A stat that looks the stack root up like any other path
getFileStat_ListsRoot(uri, fault) ==
    LET pathParts == PathParts(uri)
        serverId == parseInt(uri.authority)
    IN  IF Len(pathParts) < 1 THEN Throw(FileNotFound, <<>>, store)
        ELSE IF isNaN(serverId) THEN Throw(FileNotFound, <<>>, store)
        ELSE StatOf(listDirectory(serverId.val, pathParts[1],
                                  Some(Join(Slice(pathParts, 1, Len(pathParts) - 1))), fault),
                    pathParts[Len(pathParts)])

getFileStat(uri, fault) ==
    LET pathParts == PathParts(uri)
        serverId == parseInt(uri.authority)
    IN  IF Len(pathParts) < 1 THEN Throw(FileNotFound, <<>>, store)
        ELSE IF isNaN(serverId) THEN Throw(FileNotFound, <<>>, store)
        ELSE IF Len(pathParts) = 1 THEN Return(Stat("Directory", 0), <<>>, store)
        ELSE StatOf(listDirectory(serverId.val, pathParts[1],
                                  Some(Join(Slice(pathParts, 1, Len(pathParts) - 1))), fault),
                    pathParts[Len(pathParts)])

\* readDirectoryContents once the listing has come back (or has thrown)
EntriesOf(listing, prefix) ==
    IF ~listing.ok THEN Throw(Wrap(prefix, listing.err), listing.log, listing.store)
    ELSE Return({<<e.name, IF e.isDirectory THEN "Directory" ELSE "File">> :
                    e \in listing.val.entries},
                listing.log, listing.store)

readDirectoryContents(uri, fault) ==
    LET pathParts == PathParts(uri)
        serverId == parseInt(uri.authority)
        prefix == "Failed to read directory"
    IN  IF Len(pathParts) < 1 THEN Throw(Wrap(prefix, InvalidFormat), <<>>, store)
        ELSE IF isNaN(serverId) THEN Throw(Wrap(prefix, InvalidServerId), <<>>, store)
        ELSE EntriesOf(listDirectory(serverId.val, pathParts[1],
                                     Some(Join(Slice(pathParts, 1, Len(pathParts)))), fault),
                       prefix)

\* readFileContent from its stat on: fileContent is read only after a stat
\* that reported a file.
\* A read that asks for the content of whatever the stat found, directory or file
ContentOf_NoDirectoryCheck(stat, fileContent, prefix) ==
    IF ~stat.ok THEN Throw(stat.err, stat.log, stat.store)
    ELSE IF ~fileContent.ok
    THEN Throw(Wrap(prefix, fileContent.err), stat.log \o fileContent.log, fileContent.store)
    ELSE Return(TextEncode(fileContent.val.content),
                stat.log \o fileContent.log, fileContent.store)

ContentOf(stat, fileContent, prefix) ==
    IF ~stat.ok THEN Throw(stat.err, stat.log, stat.store)
    ELSE IF stat.val.type = "Directory" THEN Throw(FileIsADirectory, stat.log, stat.store)
    ELSE IF ~fileContent.ok
    THEN Throw(Wrap(prefix, fileContent.err), stat.log \o fileContent.log, fileContent.store)
    ELSE Return(TextEncode(fileContent.val.content),
                stat.log \o fileContent.log, fileContent.store)

readFileContent(uri, statFault, readFault) ==
    LET pathParts == PathParts(uri)
        serverId == parseInt(uri.authority)
        prefix == "Failed to load file"
    IN  IF Len(pathParts) < 2 THEN Throw(Wrap(prefix, InvalidFormat), <<>>, store)
        ELSE IF isNaN(serverId) THEN Throw(Wrap(prefix, InvalidServerId), <<>>, store)
        ELSE ContentOf(getFileStat(uri, statFault),
                       readFile(serverId.val, pathParts[1],
                                Join(Slice(pathParts, 1, Len(pathParts))), readFault),
                       prefix)

\* An announcement made whether or not the remote call succeeded
Announce_Regardless(sent, prefix, batch) ==
    IF ~sent.ok
    THEN Throw(Wrap(prefix, sent.err), sent.log \o <<Fired(batch)>>, sent.store)
    ELSE Return(NULL, sent.log \o <<Fired(batch)>>, sent.store)

\* The end of a mutating operation: the remote call threw, or it returned and
\* the change is announced in one batch.
Announce(sent, prefix, batch) ==
    IF ~sent.ok THEN Throw(Wrap(prefix, sent.err), sent.log, sent.store)
    ELSE Return(NULL, sent.log \o <<Fired(batch)>>, sent.store)

writeFileContent(uri, content, fault) ==
    LET pathParts == PathParts(uri)
        serverId == parseInt(uri.authority)
        prefix == "Failed to save file"
    IN  IF Len(pathParts) < 2 THEN Throw(Wrap(prefix, InvalidFormat), <<>>, store)
        ELSE IF isNaN(serverId) THEN Throw(Wrap(prefix, InvalidServerId), <<>>, store)
        ELSE Announce(writeFile(serverId.val, pathParts[1],
                                Join(Slice(pathParts, 1, Len(pathParts))),
                                TextDecode(content), fault),
                      prefix, <<Event("Changed", uri)>>)

createDirectoryAtPath(uri, fault) ==
    LET pathParts == PathParts(uri)
        serverId == parseInt(uri.authority)
        prefix == "Failed to create directory"
    IN  IF Len(pathParts) < 2 THEN Throw(Wrap(prefix, InvalidFormat), <<>>, store)
        ELSE IF isNaN(serverId) THEN Throw(Wrap(prefix, InvalidServerId), <<>>, store)
        ELSE Announce(createDirectory(serverId.val, pathParts[1],
                                      Join(Slice(pathParts, 1, Len(pathParts))), fault),
                      prefix, <<Event("Created", uri)>>)

\* With the check of getFileStat and readDirectoryContents: a stack segment is enough
deleteAtPath_AcceptsStackRoot(uri, fault) ==
    LET pathParts == PathParts(uri)
        serverId == parseInt(uri.authority)
        prefix == "Failed to delete"
    IN  IF Len(pathParts) < 1 THEN Throw(Wrap(prefix, InvalidFormat), <<>>, store)
        ELSE IF isNaN(serverId) THEN Throw(Wrap(prefix, InvalidServerId), <<>>, store)
        ELSE Announce(deleteFile(serverId.val, pathParts[1],
                                 Join(Slice(pathParts, 1, Len(pathParts))), fault),
                      prefix, <<Event("Deleted", uri)>>)

deleteAtPath(uri, fault) ==
    LET pathParts == PathParts(uri)
        serverId == parseInt(uri.authority)
        prefix == "Failed to delete"
    IN  IF Len(pathParts) < 2 THEN Throw(Wrap(prefix, InvalidFormat), <<>>, store)
        ELSE IF isNaN(serverId) THEN Throw(Wrap(prefix, InvalidServerId), <<>>, store)
        ELSE Announce(deleteFile(serverId.val, pathParts[1],
                                 Join(Slice(pathParts, 1, Len(pathParts))), fault),
                      prefix, <<Event("Deleted", uri)>>)

\* A check of the server only
CrossDomain_ServerOnly(oldUri, newUri) == oldUri.authority # newUri.authority

\* oldUri.authority !== newUri.authority || oldPathParts[0] !== newPathParts[0]
CrossDomain(oldUri, newUri) ==
    \/ oldUri.authority # newUri.authority
    \/ PathParts(oldUri)[1] # PathParts(newUri)[1]

renameAtPath(oldUri, newUri, fault) ==
    LET oldPathParts == PathParts(oldUri)
        newPathParts == PathParts(newUri)
        serverId == parseInt(oldUri.authority)
        prefix == "Failed to rename/move"
    IN  IF Len(oldPathParts) < 2 \/ Len(newPathParts) < 2
        THEN Throw(Wrap(prefix, InvalidFormat), <<>>, store)
        ELSE IF isNaN(serverId) THEN Throw(Wrap(prefix, InvalidServerId), <<>>, store)
        ELSE IF CrossDomain(oldUri, newUri)
        THEN Throw(Wrap(prefix, Err("Error", "",
                        "Cannot move files between different servers or stacks", 0)),
                   <<>>, store)
        ELSE IF Join(Slice(oldPathParts, 1, Len(oldPathParts))) = <<>>
                \/ Join(Slice(newPathParts, 1, Len(newPathParts))) = <<>>
        THEN Throw(Wrap(prefix, Err("Error", "",
                        "Invalid file paths for rename operation", 0)),
                   <<>>, store)
        ELSE Announce(renameFile(serverId.val, oldPathParts[1],
                                 Join(Slice(oldPathParts, 1, Len(oldPathParts))),
                                 Join(Slice(newPathParts, 1, Len(newPathParts))), fault),
                      prefix, <<Event("Deleted", oldUri), Event("Created", newUri)>>)

\* The public operations: the gate, then the private implementation.
stat(uri, fault) ==
    IF ~isAuthenticated THEN Throw(Unavailable, <<>>, store) ELSE getFileStat(uri, fault)

readDirectory(uri, fault) ==
    IF ~isAuthenticated THEN Throw(Unavailable, <<>>, store)
    ELSE readDirectoryContents(uri, fault)

createDirectoryOp(uri, fault) ==
    IF ~isAuthenticated THEN Throw(Unavailable, <<>>, store)
    ELSE createDirectoryAtPath(uri, fault)

delete(uri, fault) ==
    IF ~isAuthenticated THEN Throw(Unavailable, <<>>, store) ELSE deleteAtPath(uri, fault)

rename(oldUri, newUri, fault) ==
    IF ~isAuthenticated THEN Throw(Unavailable, <<>>, store)
    ELSE renameAtPath(oldUri, newUri, fault)

readFileOp(uri, statFault, readFault) ==
    IF ~isAuthenticated THEN Throw(Unavailable, <<>>, store)
    ELSE readFileContent(uri, statFault, readFault)

writeFileOp(uri, content, fault) ==
    IF ~isAuthenticated THEN Throw(Unavailable, <<>>, store)
    ELSE writeFileContent(uri, content, fault)

----------------------------------------------------------------------------
(* AuthService: its values, the responses of the auth endpoints, its storage *)

ACCESS_TOKEN_KEY == "berth.accessToken"
REFRESH_TOKEN_KEY == "berth.refreshToken"
USER_KEY == "berth.user"
SecretKeys == {ACCESS_TOKEN_KEY, REFRESH_TOKEN_KEY, USER_KEY}
NoSecrets == [k \in SecretKeys |-> None]

\* The truthiness of a string | null | undefined, as if (x) and !x test it
JsTruthy(v) == v \notin {NULL, UNDEF, ""}

\* secretStorage.get: the stored string, or undefined
Get(secrets, key) == IF secrets[key] = None THEN UNDEF ELSE secrets[key][1]

Users == {"u1", "u2"}

\* JSON.stringify of a user object
JSONstringify(user) == IF user = "u1" THEN "{\"id\":1}" ELSE "{\"id\":2}"

\* JSON.parse: the value, or a SyntaxError thrown
JSONparse(text) ==
    IF text = "{\"id\":1}" THEN [threw |-> FALSE, val |-> "u1"]
    ELSE IF text = "{\"id\":2}" THEN [threw |-> FALSE, val |-> "u2"]
    ELSE [threw |-> TRUE, val |-> UNDEF]

\* The fields of the AuthService object, the secret storage and the host's
\* context flag
Session(user, access, refresh, secrets, context) ==
    [currentUser |-> user, accessToken |-> access, refreshToken |-> refresh,
     secretStorage |-> secrets, authContext |-> context]

\* interface AuthResponse; an absent totpRequired is FALSE
AuthResponse(success, message, totpRequired, temporaryToken, user) ==
    [success |-> success, message |-> message, totpRequired |-> totpRequired,
     temporaryToken |-> temporaryToken, user |-> user]

\* What a Promise<boolean> or a Promise<void> resolved to
Bool(b) == AuthResponse(b, UNDEF, FALSE, UNDEF, UNDEF)

\* What a method of AuthService did: the session it left, what it returned, the
\* requests it sent, and whether it ran logout()
Outcome(s, ret, log, loggedOut) == [s |-> s, ret |-> ret, log |-> log, loggedOut |-> loggedOut]

\* The JSON body of a response of the auth endpoints; an absent field is undefined
Body(totp, temporary, access, refresh, user, message) ==
    [totp_required |-> totp, temporary_token |-> temporary, access_token |-> access,
     refresh_token |-> refresh, user |-> user, message |-> message]
EmptyBody == Body(FALSE, UNDEF, UNDEF, UNDEF, UNDEF, UNDEF)

\* fetch threw (no connection, timeout), or the server answered
Threw == [threw |-> TRUE, status |-> 0, body |-> EmptyBody]
Http(status, body) == [threw |-> FALSE, status |-> status, body |-> body]
Ok(resp) == ~resp.threw /\ resp.status >= 200 /\ resp.status <= 299

\* ApiClient.authToken of a client that new ApiClient() has just constructed
NewApiClient == NULL

\* ApiClient.getHeaders: the Authorization header of a request, if it has one;
\* the additional headers are assigned over the client's own
getHeaders(clientToken, additionalBearer) ==
    IF additionalBearer # None THEN additionalBearer
    ELSE IF JsTruthy(clientToken) THEN Some(clientToken)
    ELSE None

\* A request of AuthService and the response to it: bearer is the token of its
\* Authorization header, if it has one; user is the user of the response body
AuthSent(ep, bearer, resp) ==
    [ep |-> ep, bearer |-> bearer, threw |-> resp.threw, status |-> resp.status,
     user |-> resp.body.user, totp_required |-> resp.body.totp_required,
     temporary_token |-> resp.body.temporary_token]

\* A request sent with new ApiClient().get or .post and no additional headers
Requested(ep, resp) == AuthSent(ep, getHeaders(NewApiClient, None), resp)

saveTokensToStorage(secrets, access, refresh) ==
    [secrets EXCEPT ![ACCESS_TOKEN_KEY] = Some(access), ![REFRESH_TOKEN_KEY] = Some(refresh)]
clearTokensFromStorage(secrets) ==
    [secrets EXCEPT ![ACCESS_TOKEN_KEY] = None, ![REFRESH_TOKEN_KEY] = None]
saveUserToStorage(secrets, user) == [secrets EXCEPT ![USER_KEY] = Some(JSONstringify(user))]
removeUserFromStorage(secrets) == [secrets EXCEPT ![USER_KEY] = None]

----------------------------------------------------------------------------
(* AuthService: its methods, each from a session s to an Outcome *)

\* isAuthenticated(): currentUser !== null && accessToken !== null
SessionAuthenticated(s) == s.currentUser # NULL /\ s.accessToken # NULL

\* An initialization that installs the stored tokens before it has looked for
\* the stored user
initializeFromStorage_TokensFirst(s) ==
    IF ~(/\ JsTruthy(Get(s.secretStorage, ACCESS_TOKEN_KEY))
         /\ JsTruthy(Get(s.secretStorage, REFRESH_TOKEN_KEY)))
    THEN Outcome(s, Bool(FALSE), <<>>, FALSE)
    ELSE IF ~JsTruthy(Get(s.secretStorage, USER_KEY))
    THEN Outcome(Session(s.currentUser, Get(s.secretStorage, ACCESS_TOKEN_KEY),
                         Get(s.secretStorage, REFRESH_TOKEN_KEY), s.secretStorage,
                         s.authContext),
                 Bool(FALSE), <<>>, FALSE)
    ELSE Outcome(Session(JSONparse(Get(s.secretStorage, USER_KEY)).val,
                         Get(s.secretStorage, ACCESS_TOKEN_KEY),
                         Get(s.secretStorage, REFRESH_TOKEN_KEY), s.secretStorage, TRUE),
                 Bool(TRUE), <<>>, FALSE)

initializeFromStorage(s) ==
    IF ~(/\ JsTruthy(Get(s.secretStorage, ACCESS_TOKEN_KEY))
         /\ JsTruthy(Get(s.secretStorage, REFRESH_TOKEN_KEY))
         /\ JsTruthy(Get(s.secretStorage, USER_KEY)))
    THEN Outcome(s, Bool(FALSE), <<>>, FALSE)
    ELSE IF JSONparse(Get(s.secretStorage, USER_KEY)).threw
    \* the tokens are assigned before JSON.parse throws into the catch
    THEN Outcome(Session(s.currentUser, Get(s.secretStorage, ACCESS_TOKEN_KEY),
                         Get(s.secretStorage, REFRESH_TOKEN_KEY), s.secretStorage,
                         s.authContext),
                 Bool(FALSE), <<>>, FALSE)
    ELSE Outcome(Session(JSONparse(Get(s.secretStorage, USER_KEY)).val,
                         Get(s.secretStorage, ACCESS_TOKEN_KEY),
                         Get(s.secretStorage, REFRESH_TOKEN_KEY), s.secretStorage, TRUE),
                 Bool(TRUE), <<>>, FALSE)

\* login and verifyTOTP from "this.accessToken = data.access_token" on: the
\* tokens are assigned, then data.user decides
Established(s, body, log, okMessage, formatMessage) ==
    IF JsTruthy(body.user)
    THEN Outcome(Session(body.user, body.access_token, body.refresh_token,
                         saveUserToStorage(
                             IF JsTruthy(body.access_token) /\ JsTruthy(body.refresh_token)
                             THEN saveTokensToStorage(s.secretStorage, body.access_token,
                                                      body.refresh_token)
                             ELSE s.secretStorage,
                             body.user),
                         TRUE),
                 AuthResponse(TRUE, okMessage, FALSE, UNDEF, body.user), log, FALSE)
    ELSE Outcome(Session(s.currentUser, body.access_token, body.refresh_token,
                         s.secretStorage, s.authContext),
                 AuthResponse(FALSE, formatMessage, FALSE, UNDEF, UNDEF), log, FALSE)

\* errorData.message || fallback
MessageOr(body, fallback) == IF JsTruthy(body.message) THEN body.message ELSE fallback

Answer(s, resp, log, networkMessage, failedMessage, okMessage, formatMessage) ==
    IF resp.threw
    THEN Outcome(s, AuthResponse(FALSE, networkMessage, FALSE, UNDEF, UNDEF), log, FALSE)
    ELSE IF ~Ok(resp)
    THEN Outcome(s, AuthResponse(FALSE, MessageOr(resp.body, failedMessage), FALSE, UNDEF, UNDEF),
                 log, FALSE)
    ELSE Established(s, resp.body, log, okMessage, formatMessage)

\* A login that does not look for totp_required before it installs the session
login_IgnoresTotp(s, resp) ==
    Answer(s, resp, <<Requested("/api/v1/auth/login", resp)>>,
           "Network error: fetch failed. Please check your connection and server URL.",
           "Login failed. Please try again.",
           "Login successful",
           "Login failed - invalid response format")

login(s, resp) ==
    IF Ok(resp) /\ resp.body.totp_required
    THEN Outcome(s, AuthResponse(TRUE, MessageOr(resp.body, "Two-factor authentication required"),
                                 TRUE, resp.body.temporary_token, UNDEF),
                 <<Requested("/api/v1/auth/login", resp)>>, FALSE)
    ELSE Answer(s, resp, <<Requested("/api/v1/auth/login", resp)>>,
                "Network error: fetch failed. Please check your connection and server URL.",
                "Login failed. Please try again.",
                "Login successful",
                "Login failed - invalid response format")

verifyTOTP(s, temporaryToken, resp) ==
    Answer(s, resp,
           <<AuthSent("/api/v1/auth/totp/verify",
                      getHeaders(NewApiClient, Some(temporaryToken)), resp)>>,
           "Network error. Please check your connection.",
           "Invalid TOTP code",
           "Two-factor authentication successful",
           "TOTP verification failed - invalid response format")

\* The finally block of logout()
Cleared(s) ==
    Session(NULL, NULL, NULL, removeUserFromStorage(clearTokensFromStorage(s.secretStorage)),
            FALSE)

\* A logout that clears after the request, inside the try
logout_ClearsInTry(s, resp) ==
    IF JsTruthy(s.accessToken) /\ JsTruthy(s.refreshToken)
    THEN Outcome(IF resp.threw THEN s ELSE Cleared(s), Bool(TRUE),
                 <<Requested("/api/v1/auth/logout", resp)>>, TRUE)
    ELSE Outcome(Cleared(s), Bool(TRUE), <<>>, TRUE)

logout(s, resp) ==
    IF JsTruthy(s.accessToken) /\ JsTruthy(s.refreshToken)
    THEN Outcome(Cleared(s), Bool(TRUE), <<Requested("/api/v1/auth/logout", resp)>>, TRUE)
    ELSE Outcome(Cleared(s), Bool(TRUE), <<>>, TRUE)

refreshAccessToken(s, resp) ==
    IF ~JsTruthy(s.refreshToken) THEN Outcome(s, Bool(FALSE), <<>>, FALSE)
    ELSE IF ~Ok(resp)
    THEN Outcome(s, Bool(FALSE), <<Requested("/api/v1/auth/refresh", resp)>>, FALSE)
    ELSE Outcome(Session(s.currentUser, resp.body.access_token, resp.body.refresh_token,
                         IF /\ JsTruthy(resp.body.access_token)
                            /\ JsTruthy(resp.body.refresh_token)
                         THEN saveTokensToStorage(s.secretStorage, resp.body.access_token,
                                                  resp.body.refresh_token)
                         ELSE s.secretStorage,
                         s.authContext),
                 Bool(TRUE), <<Requested("/api/v1/auth/refresh", resp)>>, FALSE)

\* checkAuthStatus: "await this.logout(); return false" after the requests of log
LoggedOut(out, log) == Outcome(out.s, Bool(FALSE), log \o out.log, TRUE)

\* checkAuthStatus: "this.currentUser = data", saved, "return true"
Profiled(s, user, log) ==
    Outcome(Session(user, s.accessToken, s.refreshToken,
                    IF JsTruthy(user) THEN saveUserToStorage(s.secretStorage, user)
                    ELSE s.secretStorage,
                    s.authContext),
            Bool(TRUE), log, FALSE)

\* A status check that refreshes again when the second profile request is
\* refused, and gives up without a logout
Retried_RefreshesAgain(refreshed, retry, bye, log) ==
    IF ~refreshed.ret.success
    THEN LoggedOut(logout(refreshed.s, bye), log \o refreshed.log)
    ELSE IF Ok(retry)
    THEN Profiled(refreshed.s, retry.body.user,
                  log \o refreshed.log \o <<Requested("/api/v1/profile", retry)>>)
    ELSE Outcome(refreshed.s, Bool(FALSE),
                 log \o refreshed.log \o <<Requested("/api/v1/profile", retry)>>
                     \o <<Requested("/api/v1/auth/refresh", retry)>>,
                 FALSE)

\* checkAuthStatus after the 401: the refresh has returned
Retried(refreshed, retry, bye, log) ==
    IF ~refreshed.ret.success
    THEN LoggedOut(logout(refreshed.s, bye), log \o refreshed.log)
    ELSE IF Ok(retry)
    THEN Profiled(refreshed.s, retry.body.user,
                  log \o refreshed.log \o <<Requested("/api/v1/profile", retry)>>)
    ELSE LoggedOut(logout(refreshed.s, bye),
                   log \o refreshed.log \o <<Requested("/api/v1/profile", retry)>>)

\* The four responses: of the profile request, of the refresh, of the profile
\* request sent again, and of the logout request
checkAuthStatus(s, profile, refresh, retry, bye) ==
    IF ~JsTruthy(s.accessToken) THEN Outcome(s, Bool(FALSE), <<>>, FALSE)
    ELSE IF Ok(profile)
    THEN Profiled(s, profile.body.user, <<Requested("/api/v1/profile", profile)>>)
    ELSE IF ~profile.threw /\ profile.status = 401
    THEN Retried(refreshAccessToken(s, refresh), retry, bye,
                 <<Requested("/api/v1/profile", profile)>>)
    ELSE LoggedOut(logout(s, bye), <<Requested("/api/v1/profile", profile)>>)

----------------------------------------------------------------------------
(* The tree provider's selection, and the selection commands of AuthCommands *)

\* The most selection commands in flight at once
MaxCommands == 2
Commands == 1..MaxCommands

\* extension.ts constructs a StackTreeDataProvider; the other revision of
\* activate() constructs a BerthTreeDataProvider
TreeKinds == {"StackTreeDataProvider", "BerthTreeDataProvider"}

\* currentServer and currentStack of the tree provider, each an optional
Selection(server, stack) == [server |-> server, stack |-> stack]
NoSelection == Selection(None, None)

\* StackTreeDataProvider.setCurrentServer also resets the stack;
\* BerthTreeDataProvider.setCurrentServer assigns the server only
setCurrentServer(kind, sel, server) ==
    IF kind = "StackTreeDataProvider" THEN Selection(server, None)
    ELSE Selection(server, sel.stack)

setCurrentStack(sel, stack) == Selection(sel.server, stack)

\* What GET /api/v1/servers and GET /api/v1/servers/{id}/stacks list
ServerIds == {1, 2, 3}
StacksOf(serverId) ==
    IF serverId = 1 THEN {<<"a">>, <<"b">>} ELSE IF serverId = 2 THEN {<<"c">>} ELSE {}

\* A fetch of a command: it failed (threw, or not ok), or it listed
Fetched(ok, items) == [ok |-> ok, items |-> items]
ServersReplies == {Fetched(FALSE, {}), Fetched(TRUE, {}), Fetched(TRUE, ServerIds)}
StacksReplies(serverId) == {Fetched(FALSE, {}), Fetched(TRUE, StacksOf(serverId))}

\* A command in flight: the await it is suspended at, the server it works on
\* (selectStack's currentServer, selectServerAndStack's selectedServerItem),
\* the currentServer that selectServerAndStack read before its server pick, and
\* whether another command has changed the selection since it started
Command(kind, pc, server, seen, disturbed) ==
    [kind |-> kind, pc |-> pc, server |-> server, seen |-> seen, disturbed |-> disturbed]
NoCommand == Command("none", "idle", None, None, FALSE)

\* The end of selectServer: a server was picked
selectServerPicked_KeepsStack(kind, sel, server) == setCurrentServer(kind, sel, Some(server))

selectServerPicked(kind, sel, server) ==
    setCurrentStack(setCurrentServer(kind, sel, Some(server)), None)

\* The end of selectStack: a stack was picked
selectStackPicked(sel, stack) == setCurrentStack(sel, Some(stack))

\* selectServerAndStack: the picked server has no stacks
noStacksAvailable(kind, sel, server) ==
    setCurrentStack(setCurrentServer(kind, sel, Some(server)), None)

\* The end of selectServerAndStack: a stack was picked
serverAndStackPicked(kind, sel, server, stack) ==
    setCurrentStack(setCurrentServer(kind, sel, Some(server)), Some(stack))

\* A cancelled stack pick that undoes the server pick
stackPickCancelled_RollsBack(kind, sel, server, seen) == sel

\* The end of selectServerAndStack: the stack pick was cancelled
stackPickCancelled(kind, sel, server, seen) ==
    IF Some(server) # seen
    THEN setCurrentStack(setCurrentServer(kind, sel, Some(server)), None)
    ELSE sel

\* A step of a command, as the properties see it: sel is the selection before
\* it, atSet the selection right after its call of setCurrentServer, if it made one
Step(slot, c, step, outcome, server, stack, sel, atSet) ==
    [slot |-> slot, kind |-> c.kind, step |-> step, outcome |-> outcome, server |-> server,
     stack |-> stack, before |-> sel, atSet |-> atSet, seen |-> c.seen,
     disturbed |-> c.disturbed]
NoStep == Step(0, NoCommand, "none", "none", None, None, NoSelection, None)

----------------------------------------------------------------------------
(* The tree providers: chmodFile and chownFile *)

WhiteSpace == {" "}

RECURSIVE TrimStart(_)
TrimStart(s) == IF s # <<>> /\ Head(s) \in WhiteSpace THEN TrimStart(Tail(s)) ELSE s

RECURSIVE TrimEnd(_)
TrimEnd(s) ==
    IF s # <<>> /\ s[Len(s)] \in WhiteSpace THEN TrimEnd(SubSeq(s, 1, Len(s) - 1)) ELSE s

\* String.prototype.trim
Trim(s) == TrimEnd(TrimStart(s))

\* The file entry of a tree item
TreeEntry(path, isDirectory, mode) == [path |-> path, isDirectory |-> isDirectory, mode |-> mode]

\* A tree item: its type (data.type of a BerthTreeItemImpl), its file entry if it
\* has one, and the server and the stack a BerthTreeItemImpl carries
TreeItem(type, fileEntry, server, stack) ==
    [type |-> type, fileEntry |-> fileEntry, server |-> server, stack |-> stack]

\* What a handler of the tree did: the requests it sent, the backend after
\* them, the token of the ApiClient, and whether it refreshed the tree
TreeDone(log, st, token, refreshed) ==
    [log |-> log, store |-> st, authToken |-> token, refreshed |-> refreshed]

\* The first lines of both handlers: nothing happens for an item they do not serve.
TreeServes(kind, sel, item) ==
    IF kind = "StackTreeDataProvider"
    THEN sel.server # None /\ sel.stack # None /\ item.fileEntry # None
    ELSE item.type = "file"

\* The server and the stack the request names
TreeTarget(kind, sel, item) ==
    IF kind = "StackTreeDataProvider" THEN sel ELSE Selection(item.server, item.stack)

\* Without the return on a cancelled choice
Recursive_CancelIsThisFolderOnly(fileEntry, choice) ==
    IF fileEntry.isDirectory /\ choice # None THEN choice ELSE Some(FALSE)

\* let recursive = false; a directory asks, and a cancelled choice (None) ends
\* the handler
Recursive(fileEntry, choice) ==
    IF fileEntry.isDirectory THEN choice ELSE Some(FALSE)

\* const token = this.authService.getAccessToken(); if (token) setAuthToken(token)
TokenSynced(token, access) == IF JsTruthy(access) THEN access ELSE token

\* The try block once the request is made: refresh after it, a message in the catch
TreeCalled(called, token) == TreeDone(called.log, called.store, token, called.ok)

\* fileEntry.mode || '0644'
CurrentMode(fileEntry) ==
    IF fileEntry.mode # <<>> THEN fileEntry.mode ELSE <<"0", "6", "4", "4">>

\* newMode.startsWith('0') ? newMode : `0${newMode}`
ModeSent(newMode) == IF Head(newMode) = "0" THEN newMode ELSE <<"0">> \o newMode

TreeChmodFile(kind, sel, item, newMode, choice, token, access, fault) ==
    IF ~TreeServes(kind, sel, item) THEN TreeDone(<<>>, store, token, FALSE)
    ELSE IF newMode = None \/ newMode[1] = <<>> \/ newMode[1] = CurrentMode(item.fileEntry[1])
    THEN TreeDone(<<>>, store, token, FALSE)
    ELSE IF Recursive(item.fileEntry[1], choice) = None
    THEN TreeDone(<<>>, store, token, FALSE)
    ELSE TreeCalled(chmodFile(TreeTarget(kind, sel, item).server[1],
                              TreeTarget(kind, sel, item).stack[1],
                              item.fileEntry[1].path,
                              ChmodRequest(ModeSent(newMode[1]),
                                           Recursive(item.fileEntry[1], choice)[1]),
                              fault),
                    TokenSynced(token, access))

\* Without the check that one of the two inputs is given
NeitherGiven_Unchecked(ownerInput, groupInput) == FALSE

\* !ownerInput.trim() && !groupInput.trim()
NeitherGiven(ownerInput, groupInput) == Trim(ownerInput) = <<>> /\ Trim(groupInput) = <<>>

\* input.trim() ? parseInt(input.trim()) : undefined
IdOf(input) == IF Trim(input) # <<>> THEN Some(parseInt(Trim(input))) ELSE None

\* input.trim() && isNaN(id)
NotNumeric(input) == Trim(input) # <<>> /\ isNaN(IdOf(input)[1])

\* owner_id / group_id of the request body
IdSent(input) == IF IdOf(input) = None THEN None ELSE Some(IdOf(input)[1].val)

TreeChownFile(kind, sel, item, ownerInput, groupInput, choice, token, access, fault) ==
    IF ~TreeServes(kind, sel, item) THEN TreeDone(<<>>, store, token, FALSE)
    ELSE IF ownerInput = None \/ groupInput = None THEN TreeDone(<<>>, store, token, FALSE)
    ELSE IF NeitherGiven(ownerInput[1], groupInput[1]) THEN TreeDone(<<>>, store, token, FALSE)
    ELSE IF Recursive(item.fileEntry[1], choice) = None
    THEN TreeDone(<<>>, store, token, FALSE)
    ELSE IF NotNumeric(ownerInput[1]) \/ NotNumeric(groupInput[1])
    THEN TreeDone(<<>>, store, TokenSynced(token, access), FALSE)
    ELSE TreeCalled(chownFile(TreeTarget(kind, sel, item).server[1],
                              TreeTarget(kind, sel, item).stack[1],
                              item.fileEntry[1].path,
                              ChownRequest(IdSent(ownerInput[1]), IdSent(groupInput[1]),
                                           Recursive(item.fileEntry[1], choice)[1]),
                              fault),
                    TokenSynced(token, access))

\* A run of a handler of the tree, as the properties see it
TreeOp(op, item, newMode, ownerInput, groupInput, choice, done) ==
    [op |-> op, item |-> item, newMode |-> newMode, ownerInput |-> ownerInput,
     groupInput |-> groupInput, choice |-> choice, log |-> done.log,
     refreshed |-> done.refreshed]
NoTreeOp ==
    TreeOp("none", TreeItem("none", None, None, None), None, None, None, None,
           TreeDone(<<>>, {}, NULL, FALSE))

\* A call of FilesService, as the properties see it: whether it returned, the
\* error it threw, the requests it sent
FilesOp(op, called) == [op |-> op, ok |-> called.ok, err |-> called.err, log |-> called.log]
NoFilesOp == FilesOp("none", Return(NULL, <<>>, {}))

----------------------------------------------------------------------------
(* The URIs AuthCommands builds, and vscode.Uri.parse *)

DigitChar(d) ==
    CASE d = 0 -> "0" [] d = 1 -> "1" [] d = 2 -> "2" [] d = 3 -> "3" [] d = 4 -> "4"
      [] d = 5 -> "5" [] d = 6 -> "6" [] d = 7 -> "7" [] d = 8 -> "8" [] d = 9 -> "9"

\* `${id}` of a non-negative integer: its decimal digits
RECURSIVE NumberToString(_)
NumberToString(n) ==
    IF n < 10 THEN <<DigitChar(n)>> ELSE NumberToString(n \div 10) \o <<DigitChar(n % 10)>>

Scheme == <<"b", "e", "r", "t", "h", ":">>

\* `berth://${currentServer.id}/${currentStack.name}/${fileEntry.path}`
FileUriText(id, stackName, path) ==
    Scheme \o <<"/", "/">> \o NumberToString(id) \o <<"/">> \o stackName \o <<"/">> \o path

\* `berth://${targetServer.id}/${targetStack.name}`
StackUriText(id, stackName) ==
    Scheme \o <<"/", "/">> \o NumberToString(id) \o <<"/">> \o stackName

\* The longest prefix of s with no character of stops
RECURSIVE UpTo(_, _)
UpTo(s, stops) ==
    IF s = <<>> \/ Head(s) \in stops THEN <<>> ELSE <<Head(s)>> \o UpTo(Tail(s), stops)

DropFirst(s, n) == SubSeq(s, n + 1, Len(s))

HexDigits == Digits \cup {"a", "b", "c", "d", "e", "f", "A", "B", "C", "D", "E", "F"}

\* The character a percent escape stands for; the escapes the model's names can
\* hold are %41 (A), %44 (D), %11 and %14 (device controls)
EscapedChar(h1, h2) ==
    CASE h1 = "4" /\ h2 = "1" -> "A"
      [] h1 = "4" /\ h2 = "4" -> "D"
      [] h1 = "1" /\ h2 = "1" -> "DC1"
      [] h1 = "1" /\ h2 = "4" -> "DC4"
      [] OTHER -> "?escape"

\* percentDecode of the components of a parsed URI
RECURSIVE PercentDecode(_)
PercentDecode(s) ==
    IF s = <<>> THEN <<>>
    ELSE IF Head(s) = "%" /\ Len(s) >= 3 /\ s[2] \in HexDigits /\ s[3] \in HexDigits
    THEN <<EscapedChar(s[2], s[3])>> \o PercentDecode(DropFirst(s, 3))
    ELSE <<Head(s)>> \o PercentDecode(Tail(s))

\* vscode.Uri.parse of scheme://authority/path?query#fragment: the authority runs
\* to the first of / ? #, the path to the first of ? #, the query to the first #;
\* the components are percent-decoded.
UriParse(text) ==
    LET rest == DropFirst(text, Len(Scheme) + 2)
        authority == UpTo(rest, {"/", "?", "#"})
        afterAuthority == DropFirst(rest, Len(authority))
        path == UpTo(afterAuthority, {"?", "#"})
        afterPath == DropFirst(afterAuthority, Len(path))
        query == IF afterPath # <<>> /\ Head(afterPath) = "?"
                 THEN UpTo(Tail(afterPath), {"#"}) ELSE <<>>
        afterQuery == IF afterPath # <<>> /\ Head(afterPath) = "?"
                      THEN DropFirst(afterPath, Len(query) + 1) ELSE afterPath
        fragment == IF afterQuery # <<>> THEN Tail(afterQuery) ELSE <<>>
    IN  [authority |-> PercentDecode(authority), path |-> PercentDecode(path),
         query |-> PercentDecode(query), fragment |-> PercentDecode(fragment)]

\* The triple the adapter takes from a URI (readFileContent: least = 2;
\* getFileStat and readDirectoryContents: least = 1)
UriTriple(uri, least) ==
    IF Len(PathParts(uri)) < least \/ isNaN(parseInt(uri.authority))
    THEN [ok |-> FALSE, serverId |-> 0, stackName |-> <<>>, filePath |-> <<>>]
    ELSE [ok |-> TRUE, serverId |-> parseInt(uri.authority).val,
          stackName |-> PathParts(uri)[1],
          filePath |-> Join(Slice(PathParts(uri), 1, Len(PathParts(uri))))]

\* What openFile or openStackInExplorer opened: the triple it started from
\* (path None for a stack), the text of the URI, the URI, the adapter's triple
Opened(op, id, stackName, path, text, least) ==
    [op |-> op, id |-> id, stackName |-> stackName, path |-> path, text |-> text,
     uri |-> UriParse(text), triple |-> UriTriple(UriParse(text), least)]
NoOpened == [op |-> "none", id |-> 0, stackName |-> <<>>, path |-> None, text |-> <<>>,
             uri |-> [authority |-> <<>>, path |-> <<>>, query |-> <<>>, fragment |-> <<>>],
             triple |-> [ok |-> FALSE, serverId |-> 0, stackName |-> <<>>, filePath |-> <<>>]]

\* openFile: nothing without a selection, nothing for a directory
openFile(sel, fileEntry) ==
    IF sel.server = None \/ sel.stack = None THEN NoOpened
    ELSE IF fileEntry.isDirectory THEN NoOpened
    ELSE Opened("openFile", sel.server[1], sel.stack[1], Some(fileEntry.path),
                FileUriText(sel.server[1], sel.stack[1], fileEntry.path), 2)

\* openStackInExplorer: server || getCurrentServer(), stack || getCurrentStack()
openStackInExplorer(authenticated, sel, server, stack) ==
    LET targetServer == IF server # None THEN server ELSE sel.server
        targetStack == IF stack # None THEN stack ELSE sel.stack
    IN  IF ~authenticated THEN NoOpened
        ELSE IF targetServer = None \/ targetStack = None THEN NoOpened
        ELSE Opened("openStackInExplorer", targetServer[1], targetStack[1], None,
                    StackUriText(targetServer[1], targetStack[1]), 1)

\* Activation: pc is where initializeAuth is ("restoring" before
\* initializeFromStorage has resolved, "checking" before checkAuthStatus has,
\* "done" after), op the auth command that ran last
Boot(pc, op) == [pc |-> pc, op |-> op]
NoBoot == Boot("none", "none")

\* The login() calls in flight at once
MaxLogins == 2

\* One login() call: pc is the await it is suspended at ("idle" before the
\* call, "post" in apiClient.post, "storedAccess" and "storedRefresh" in the
\* two stores of saveTokensToStorage, "storedUser" in the store of
\* saveUserToStorage, "done" after its return), resp the response it received
Login(pc, resp) == [pc |-> pc, resp |-> resp]
NoLogins == [i \in 1..MaxLogins |-> Login("idle", Threw)]

InitRest ==
    /\ opened = NoOpened
    /\ boot = NoBoot
    /\ logins = NoLogins

InitUi ==
    /\ treeKind = "StackTreeDataProvider"
    /\ currentServer = None
    /\ currentStack = None
    /\ cmd = [i \in Commands |-> NoCommand]
    /\ selOp = NoStep
    /\ treeOp = NoTreeOp
    /\ filesOp = NoFilesOp
    /\ InitRest

----------------------------------------------------------------------------
(* The inputs of the adapter *)

Tokens == {"t1", "t2"}
AdapterTokens == {"t1"}
\* Authorities: "1", "2", "x", "-1" and "1x"
Authorities == {<<"1">>, <<"2">>, <<"x">>, <<"-", "1">>, <<"1", "x">>}
Names == {<<"a">>, <<"b">>}

\* The path "/s1/s2/.../sn" of the segments s1..sn
RECURSIVE UriPath(_)
UriPath(segs) == IF segs = <<>> THEN <<>> ELSE <<"/">> \o Head(segs) \o UriPath(Tail(segs))

\* Paths of up to MaxDepth names, and two with empty segments: "/" and "/a//b"
UriPaths ==
    {UriPath(segs) : segs \in UNION {[1..k -> Names] : k \in 0..MaxDepth}}
    \cup {<<"/">>, <<"/", "a", "/", "/", "b">>}

\* Every path under the authority "1"; a stack root and a file under the others
Uris ==
    {[authority |-> <<"1">>, path |-> p] : p \in UriPaths}
    \cup {[authority |-> a, path |-> p] :
             a \in Authorities \ {<<"1">>}, p \in {<<"/", "a">>, <<"/", "a", "/", "b">>}}

\* The byte contents written: ASCII, a two-byte character, a byte that is no
\* UTF-8, and a text that starts with a byte order mark.
FileContents == {<<65>>, <<195, 169>>, <<255>>, <<239, 187, 191, 65>>}

File(path, content) ==
    [sid |-> 1, stack |-> <<"a">>, path |-> path, isDirectory |-> FALSE, content |-> content]
Dir(path) ==
    [sid |-> 1, stack |-> <<"a">>, path |-> path, isDirectory |-> TRUE, content |-> <<>>]

InitialStores ==
    {{}, {File(<<"a">>, <<65>>)}, {Dir(<<"a">>), File(<<"a", "/", "b">>, <<65>>)}}

Idle ==
    [op |-> "none", uri |-> [authority |-> <<>>, path |-> <<>>],
     newUri |-> [authority |-> <<>>, path |-> <<>>], content |-> <<>>,
     ok |-> TRUE, err |-> NoErr, val |-> NULL]

NoSession == Session(NULL, NULL, NULL, NoSecrets, FALSE)
AuthIdle == [op |-> "none", ret |-> Bool(TRUE), pre |-> NoSession, loggedOut |-> FALSE]

----------------------------------------------------------------------------
(* The adapter's specification: the host calls the operations in any order *)

Init ==
    /\ authToken = NULL
    /\ store \in InitialStores
    /\ fsOp = Idle
    /\ fsLog = <<>>
    /\ lastWrite = None
    /\ currentUser = NULL
    /\ accessToken = NULL
    /\ refreshToken = NULL
    /\ secretStorage = NoSecrets
    /\ authContext = FALSE
    /\ authOp = AuthIdle
    /\ authLog = <<>>
    /\ InitUi

\* An operation runs when the host has taken the previous one's outcome.
Ran(op, uri, newUri, content, res) ==
    /\ fsOp' = [op |-> op, uri |-> uri, newUri |-> newUri, content |-> content,
                ok |-> res.ok, err |-> res.err, val |-> res.val]
    /\ fsLog' = res.log
    /\ store' = res.store
    /\ lastWrite' = IF op = "writeFile" /\ res.ok THEN Some([uri |-> uri, content |-> content])
                    ELSE IF op = "readFile" THEN lastWrite
                    ELSE None
    /\ UNCHANGED authToken
    /\ UNCHANGED authVars
    /\ UNCHANGED uiVars
    /\ UNCHANGED restVars

\* ApiClient.setAuthToken, as the extension's syncTokenToApiClient calls it
SetAuthToken ==
    /\ fsOp = Idle
    /\ \E t \in AdapterTokens : authToken' = t
    /\ lastWrite' = None
    /\ UNCHANGED <<store, fsOp, fsLog>>
    /\ UNCHANGED authVars
    /\ UNCHANGED uiVars
    /\ UNCHANGED restVars

\* ApiClient.clearAuthToken
ClearAuthToken ==
    /\ fsOp = Idle
    /\ authToken # NULL
    /\ authToken' = NULL
    /\ lastWrite' = None
    /\ UNCHANGED <<store, fsOp, fsLog>>
    /\ UNCHANGED authVars
    /\ UNCHANGED uiVars
    /\ UNCHANGED restVars

\* The host takes the outcome of the operation that ran.
Settle ==
    /\ fsOp # Idle
    /\ fsOp' = Idle
    /\ fsLog' = <<>>
    /\ lastWrite' = IF fsOp.op = "writeFile" THEN lastWrite ELSE None
    /\ UNCHANGED <<authToken, store>>
    /\ UNCHANGED authVars
    /\ UNCHANGED uiVars
    /\ UNCHANGED restVars

StatAction ==
    /\ fsOp = Idle
    /\ \E uri \in Uris, f \in Responses : Ran("stat", uri, uri, <<>>, stat(uri, f))

ReadDirectoryAction ==
    /\ fsOp = Idle
    /\ \E uri \in Uris, f \in Responses :
           Ran("readDirectory", uri, uri, <<>>, readDirectory(uri, f))

ReadFileAction ==
    /\ fsOp = Idle
    /\ \E uri \in Uris, f1 \in Responses, f2 \in Responses :
           Ran("readFile", uri, uri, <<>>, readFileOp(uri, f1, f2))

WriteFileAction ==
    /\ fsOp = Idle
    /\ \E uri \in Uris, content \in FileContents, f \in Responses :
           Ran("writeFile", uri, uri, content, writeFileOp(uri, content, f))

CreateDirectoryAction ==
    /\ fsOp = Idle
    /\ \E uri \in Uris, f \in Responses :
           Ran("createDirectory", uri, uri, <<>>, createDirectoryOp(uri, f))

DeleteAction ==
    /\ fsOp = Idle
    /\ \E uri \in Uris, f \in Responses : Ran("delete", uri, uri, <<>>, delete(uri, f))

RenameAction ==
    /\ fsOp = Idle
    /\ \E oldUri \in Uris, newUri \in Uris, f \in Responses :
           Ran("rename", oldUri, newUri, <<>>, rename(oldUri, newUri, f))

Next ==
    \/ SetAuthToken
    \/ ClearAuthToken
    \/ StatAction
    \/ ReadDirectoryAction
    \/ ReadFileAction
    \/ WriteFileAction
    \/ CreateDirectoryAction
    \/ DeleteAction
    \/ RenameAction
    \/ Settle

Spec == Init /\ [][Next]_vars

----------------------------------------------------------------------------
(* Properties of the adapter *)

AdapterOps ==
    {"stat", "readDirectory", "readFile", "writeFile", "createDirectory", "delete", "rename"}

IsRequest(e) == e.kind = "request"
IsEvent(e) == e.kind = "event"
RequestsSent == SelectSeq(fsLog, IsRequest)
EventsFired == SelectSeq(fsLog, IsEvent)

ValidServerId(uri) == ~parseInt(uri.authority).nan

\* What the backend holds at the in-stack path of uri
HeldAt(uri) ==
    {r \in store : /\ r.sid = parseInt(uri.authority).val
                   /\ r.stack = PathParts(uri)[1]
                   /\ ReqParts(r.path) = Tail(PathParts(uri))}

\* C1: an operation invoked while the adapter is unauthenticated fails with
\* Unavailable, and sends no request (and fires no event).
C1_UnauthenticatedIsUnavailable ==
    (fsOp.op \in AdapterOps /\ authToken = NULL) =>
        /\ ~fsOp.ok
        /\ fsOp.err.kind = "Unavailable"
        /\ RequestsSent = <<>>
        /\ fsLog = <<>>

\* C1, its case: a write the backend would have accepted is refused unauthenticated.
C1_Witness ==
    /\ fsOp.op = "writeFile"
    /\ authToken = NULL
    /\ fsOp.uri = [authority |-> <<"1">>, path |-> <<"/", "a", "/", "b">>]
    /\ fsOp.err = Unavailable

\* C2: authenticated, stat of a stack root (a server id as authority, one path
\* segment) returns a directory of size 0 and sends no request, whatever the
\* backend holds.
C2_StackRootIsDirectory ==
    (/\ fsOp.op = "stat"
     /\ authToken # NULL
     /\ ValidServerId(fsOp.uri)
     /\ Len(PathParts(fsOp.uri)) = 1) =>
        /\ fsOp.ok
        /\ fsOp.val = Stat("Directory", 0)
        /\ fsLog = <<>>

\* C2, its case: the root of a stack the backend does not have, over a backend
\* that holds files.
C2_Witness ==
    /\ fsOp.op = "stat"
    /\ authToken # NULL
    /\ fsOp.uri = [authority |-> <<"1">>, path |-> <<"/", "b">>]
    /\ store # {}
    /\ fsOp.ok
    /\ fsOp.val.type = "Directory"

\* C3: authenticated, stat of a path below the stack root sends one request, the
\* listing of the parent directory; when that listing comes back, the outcome is
\* "file not found" if the backend holds nothing under the last segment's name,
\* and otherwise the type and the size of what it holds; and a stat that fails,
\* fails with "file not found" and nothing else.
C3_StatMatchesParentListing ==
    (/\ fsOp.op = "stat"
     /\ authToken # NULL
     /\ ValidServerId(fsOp.uri)
     /\ Len(PathParts(fsOp.uri)) >= 2) =>
        /\ Len(fsLog) = 1
        /\ fsLog[1].kind = "request"
        /\ fsLog[1].req.ep = "list"
        /\ fsLog[1].req.sid = parseInt(fsOp.uri.authority).val
        /\ fsLog[1].req.stack = PathParts(fsOp.uri)[1]
        /\ fsLog[1].req.path =
              IF Len(PathParts(fsOp.uri)) = 2 THEN None
              ELSE Some(Join(SubSeq(PathParts(fsOp.uri), 2, Len(PathParts(fsOp.uri)) - 1)))
        /\ ~fsOp.ok => fsOp.err.kind = "FileNotFound"
        /\ fsLog[1].status = 200 =>
              IF HeldAt(fsOp.uri) = {}
              THEN ~fsOp.ok /\ fsOp.err.kind = "FileNotFound"
              ELSE /\ fsOp.ok
                   /\ \A r \in HeldAt(fsOp.uri) :
                         /\ fsOp.val.type = (IF r.isDirectory THEN "Directory" ELSE "File")
                         /\ fsOp.val.size = Len(TextEncode(r.content))

\* C3, its cases: a name the parent's listing lacks, and a file of two bytes found.
C3_WitnessAbsent ==
    /\ fsOp.op = "stat"
    /\ authToken # NULL
    /\ fsOp.uri = [authority |-> <<"1">>, path |-> <<"/", "a", "/", "a", "/", "a">>]
    /\ fsLog # <<>>
    /\ fsLog[1].status = 200
    /\ \E r \in store : r.path = <<"a", "/", "b">>
    /\ fsOp.err.kind = "FileNotFound"

C3_Witness ==
    /\ fsOp.op = "stat"
    /\ authToken # NULL
    /\ fsOp.ok
    /\ fsOp.val = Stat("File", 2)
    /\ Len(PathParts(fsOp.uri)) = 3

\* C4 (the claim): readDirectory of a path below the stack root under whose name
\* the backend holds nothing fails with "file not found", when the network and
\* the backend answer (200 or 404).
C4_ReadDirectoryNotFound ==
    (/\ fsOp.op = "readDirectory"
     /\ authToken # NULL
     /\ ValidServerId(fsOp.uri)
     /\ Len(PathParts(fsOp.uri)) >= 2
     /\ HeldAt(fsOp.uri) = {}
     /\ fsLog # <<>>
     /\ fsLog[1].status \in {200, 404}) =>
        /\ ~fsOp.ok
        /\ fsOp.err.kind = "FileNotFound"

\* C4, the failing case: the backend answers 404 for a directory it does not
\* hold, and the adapter reports a generic error.
C4_WitnessGeneric ==
    /\ fsOp.op = "readDirectory"
    /\ fsOp.uri = [authority |-> <<"1">>, path |-> <<"/", "a", "/", "b">>]
    /\ HeldAt(fsOp.uri) = {}
    /\ fsLog # <<>>
    /\ fsLog[1].status = 404
    /\ ~fsOp.ok
    /\ fsOp.err.kind = "Error"
    /\ fsOp.err.prefix = "Failed to read directory"

\* The stack name of a URI, if it has one
StackOf(uri) == IF PathParts(uri) = <<>> THEN None ELSE Some(PathParts(uri)[1])

\* C5: a rename between two authorities or two stack names fails, sends no
\* request and fires no event.
C5_CrossDomainRenameRejected ==
    (/\ fsOp.op = "rename"
     /\ \/ fsOp.uri.authority # fsOp.newUri.authority
        \/ StackOf(fsOp.uri) # StackOf(fsOp.newUri)) =>
        /\ ~fsOp.ok
        /\ fsLog = <<>>

\* C5, its case: authenticated, an existing file of stack a renamed into stack b
\* of the same server.
C5_Witness ==
    /\ fsOp.op = "rename"
    /\ authToken # NULL
    /\ fsOp.uri = [authority |-> <<"1">>, path |-> <<"/", "a", "/", "a">>]
    /\ fsOp.newUri = [authority |-> <<"1">>, path |-> <<"/", "b", "/", "a">>]
    /\ HeldAt(fsOp.uri) # {}
    /\ fsOp.err.text = "Cannot move files between different servers or stacks"

\* The batch a mutating operation announces
BatchOf(op) ==
    CASE op.op = "writeFile" -> <<Event("Changed", op.uri)>>
      [] op.op = "createDirectory" -> <<Event("Created", op.uri)>>
      [] op.op = "delete" -> <<Event("Deleted", op.uri)>>
      [] op.op = "rename" -> <<Event("Deleted", op.uri), Event("Created", op.newUri)>>

\* C6: a mutating operation that succeeds has sent its request, got a success
\* status, and then fired its batch, once; one that fails has fired nothing; and
\* no event is ever fired before a request has succeeded.
C6_NotifyAfterSuccessOnly ==
    (fsOp.op \in {"writeFile", "createDirectory", "delete", "rename"}) =>
        /\ fsOp.ok =>
              /\ Len(fsLog) = 2
              /\ fsLog[1].kind = "request"
              /\ ResponseOk(fsLog[1])
              /\ fsLog[2] = Fired(BatchOf(fsOp))
        /\ ~fsOp.ok => EventsFired = <<>>
        /\ \A i \in 1..Len(fsLog) :
              (fsLog[i].kind = "request" /\ ~ResponseOk(fsLog[i])) => EventsFired = <<>>

\* C6, its cases: a rename that went through, and a delete the backend refused.
C6_Witness ==
    /\ fsOp.op = "rename"
    /\ fsOp.ok
    /\ Len(EventsFired) = 1
    /\ Len(EventsFired[1].batch) = 2

C6_WitnessFailed ==
    /\ fsOp.op = "delete"
    /\ ~fsOp.ok
    /\ Len(RequestsSent) = 1
    /\ RequestsSent[1].status = 404

\* C7 (the claim): readFile right after a successful writeFile of the same URI
\* returns the bytes written.
C7_WriteReadRoundTrip ==
    (/\ fsOp.op = "readFile"
     /\ fsOp.ok
     /\ lastWrite # None
     /\ lastWrite[1].uri = fsOp.uri) =>
        fsOp.val = lastWrite[1].content

\* C7, the failing case: the byte 0xFF written, the three bytes of U+FFFD read back.
C7_WitnessReplaced ==
    /\ fsOp.op = "readFile"
    /\ fsOp.ok
    /\ lastWrite # None
    /\ lastWrite[1].uri = fsOp.uri
    /\ lastWrite[1].content = <<255>>
    /\ fsOp.val = <<239, 191, 189>>

\* C7 restricted to the contents that are UTF-8 without a byte order mark
C7_RoundTripOfUtf8 ==
    (/\ fsOp.op = "readFile"
     /\ fsOp.ok
     /\ lastWrite # None
     /\ lastWrite[1].uri = fsOp.uri
     /\ lastWrite[1].content \in {<<65>>, <<195, 169>>}) =>
        fsOp.val = lastWrite[1].content

----------------------------------------------------------------------------
(* The session manager's specification: the extension calls the public     *)
(* methods of AuthService in any order, one at a time, and the host may    *)
(* restart the extension, which constructs a new AuthService over the same *)
(* secret storage.                                                          *)

\* What the auth endpoints may answer
TokenPairs == {<<"t1", "r1">>, <<"t2", "r2">>, <<"t1", UNDEF>>, <<UNDEF, UNDEF>>}
TemporaryTokens == {"tmp"}
SessionBodies(users) ==
    {Body(FALSE, UNDEF, p[1], p[2], u, UNDEF) : p \in TokenPairs, u \in users}
Refusals == {Threw, Http(401, Body(FALSE, UNDEF, UNDEF, UNDEF, UNDEF, "Invalid credentials"))}
VerifyResponses == Refusals \cup {Http(200, b) : b \in SessionBodies(Users \cup {UNDEF})}
LoginResponses ==
    VerifyResponses \cup {Http(200, Body(TRUE, t, UNDEF, UNDEF, UNDEF, UNDEF)) : t \in TemporaryTokens}
RefreshResponses == Refusals \cup {Http(200, b) : b \in SessionBodies({UNDEF})}
ProfileResponses ==
    Refusals \cup {Http(500, EmptyBody)}
             \cup {Http(200, Body(FALSE, UNDEF, UNDEF, UNDEF, u, UNDEF)) : u \in Users}
LogoutResponses == {Threw, Http(200, EmptyBody), Http(500, EmptyBody)}

\* The secret storage at the first activation: empty, or a session an earlier
\* run of the extension has saved
InitialSecrets ==
    {NoSecrets, saveUserToStorage(saveTokensToStorage(NoSecrets, "t1", "r1"), "u1")}

Current == Session(currentUser, accessToken, refreshToken, secretStorage, authContext)

InitAuth ==
    /\ authToken = NULL
    /\ store = {}
    /\ fsOp = Idle
    /\ fsLog = <<>>
    /\ lastWrite = None
    /\ currentUser = NULL
    /\ accessToken = NULL
    /\ refreshToken = NULL
    /\ secretStorage \in InitialSecrets
    /\ authContext = FALSE
    /\ authOp = AuthIdle
    /\ authLog = <<>>
    /\ InitUi

\* A method has run to its end: the fields, the storage and the context flag
\* are as it left them
AuthRan(op, out) ==
    /\ currentUser' = out.s.currentUser
    /\ accessToken' = out.s.accessToken
    /\ refreshToken' = out.s.refreshToken
    /\ secretStorage' = out.s.secretStorage
    /\ authContext' = out.s.authContext
    /\ authOp' = [op |-> op, ret |-> out.ret, pre |-> Current, loggedOut |-> out.loggedOut]
    /\ authLog' = out.log
    /\ UNCHANGED fsVars
    /\ UNCHANGED uiVars
    /\ UNCHANGED restVars

\* new AuthService(context.secrets, context) at activation
Activate ==
    /\ authOp = AuthIdle
    /\ currentUser' = NULL
    /\ accessToken' = NULL
    /\ refreshToken' = NULL
    /\ authContext' = FALSE
    /\ UNCHANGED <<secretStorage, authOp, authLog>>
    /\ UNCHANGED fsVars
    /\ UNCHANGED uiVars
    /\ UNCHANGED restVars

InitializeFromStorageAction ==
    /\ authOp = AuthIdle
    /\ AuthRan("initializeFromStorage", initializeFromStorage(Current))

LoginAction ==
    /\ authOp = AuthIdle
    /\ \E resp \in LoginResponses : AuthRan("login", login(Current, resp))

VerifyTOTPAction ==
    /\ authOp = AuthIdle
    /\ \E t \in TemporaryTokens, resp \in VerifyResponses :
          AuthRan("verifyTOTP", verifyTOTP(Current, t, resp))

LogoutAction ==
    /\ authOp = AuthIdle
    /\ \E resp \in LogoutResponses : AuthRan("logout", logout(Current, resp))

RefreshAccessTokenAction ==
    /\ authOp = AuthIdle
    /\ \E resp \in RefreshResponses :
          AuthRan("refreshAccessToken", refreshAccessToken(Current, resp))

CheckAuthStatusAction ==
    /\ authOp = AuthIdle
    /\ \E profile \in ProfileResponses, refresh \in RefreshResponses,
          retry \in ProfileResponses, bye \in LogoutResponses :
          AuthRan("checkAuthStatus", checkAuthStatus(Current, profile, refresh, retry, bye))

\* The caller takes what the method returned.
AuthSettle ==
    /\ authOp # AuthIdle
    /\ authOp' = AuthIdle
    /\ authLog' = <<>>
    /\ UNCHANGED <<currentUser, accessToken, refreshToken, secretStorage, authContext>>
    /\ UNCHANGED fsVars
    /\ UNCHANGED uiVars
    /\ UNCHANGED restVars

NextAuth ==
    \/ Activate
    \/ InitializeFromStorageAction
    \/ LoginAction
    \/ VerifyTOTPAction
    \/ LogoutAction
    \/ RefreshAccessTokenAction
    \/ CheckAuthStatusAction
    \/ AuthSettle

SpecAuth == InitAuth /\ [][NextAuth]_vars

----------------------------------------------------------------------------
(* Properties of the session manager *)

InMemory(s) == <<s.currentUser, s.accessToken, s.refreshToken>>

\* C8: when logout() has run (called by itself or inside checkAuthStatus), the
\* three fields are null, the three storage entries are deleted and the context
\* flag is off, whatever became of the invalidation request.
C8_LogoutClearsEverything ==
    authOp.loggedOut =>
        /\ InMemory(Current) = <<NULL, NULL, NULL>>
        /\ secretStorage = NoSecrets
        /\ ~authContext

\* C8, its cases: the invalidation request threw, over a session held in memory
\* and in storage; the server refused it; it was not sent, over a storage that
\* held a session.
C8_Witness ==
    /\ authOp.op = "logout"
    /\ SessionAuthenticated(authOp.pre)
    /\ \A k \in SecretKeys : authOp.pre.secretStorage[k] # None
    /\ Len(authLog) = 1
    /\ authLog[1].threw
    /\ secretStorage = NoSecrets

C8_WitnessRefused ==
    /\ authOp.op = "logout"
    /\ SessionAuthenticated(authOp.pre)
    /\ Len(authLog) = 1
    /\ authLog[1].status = 500
    /\ InMemory(Current) = <<NULL, NULL, NULL>>

C8_WitnessNotSent ==
    /\ authOp.op = "logout"
    /\ authLog = <<>>
    /\ \A k \in SecretKeys : authOp.pre.secretStorage[k] # None
    /\ secretStorage = NoSecrets

\* C9 (the claim): a method that finds isAuthenticated() false and leaves it
\* true is a login, a verifyTOTP or an initializeFromStorage that succeeded, and
\* a method that finds it true and leaves it false has run logout().
C9_SessionStateMachine ==
    (authOp.op # "none") =>
        /\ (~SessionAuthenticated(authOp.pre) /\ SessionAuthenticated(Current)) =>
              /\ authOp.op \in {"login", "verifyTOTP", "initializeFromStorage"}
              /\ authOp.ret.success
        /\ (SessionAuthenticated(authOp.pre) /\ ~SessionAuthenticated(Current)) =>
              authOp.loggedOut

\* C9, the failing case: checkAuthStatus finds a token and no user, and leaves
\* a token and a user.
C9_WitnessStatusCheck ==
    /\ authOp.op = "checkAuthStatus"
    /\ ~SessionAuthenticated(authOp.pre)
    /\ SessionAuthenticated(Current)

\* C9 for every method but checkAuthStatus
C9_OtherMethods ==
    (authOp.op # "checkAuthStatus") => C9_SessionStateMachine

\* C10: initializeFromStorage sends no request and writes nothing; it returns
\* true exactly when the three entries are present, and then the fields are the
\* stored tokens and the stored user; when it returns false the fields are as
\* they were.
C10_InitializeFromStorage ==
    (authOp.op = "initializeFromStorage") =>
        /\ authLog = <<>>
        /\ secretStorage = authOp.pre.secretStorage
        /\ authOp.ret.success <=> (\A k \in SecretKeys : secretStorage[k] # None)
        /\ authOp.ret.success =>
              /\ accessToken = secretStorage[ACCESS_TOKEN_KEY][1]
              /\ refreshToken = secretStorage[REFRESH_TOKEN_KEY][1]
              /\ currentUser \in Users
              /\ JSONstringify(currentUser) = secretStorage[USER_KEY][1]
        /\ ~authOp.ret.success => InMemory(Current) = InMemory(authOp.pre)

\* C10, its cases: a new AuthService restores the session of an earlier login;
\* and one that finds the tokens without the user restores nothing.
C10_Witness ==
    /\ authOp.op = "initializeFromStorage"
    /\ authOp.ret.success
    /\ InMemory(authOp.pre) = <<NULL, NULL, NULL>>
    /\ InMemory(Current) = <<"u2", "t2", "r2">>

C10_WitnessIncomplete ==
    /\ authOp.op = "initializeFromStorage"
    /\ ~authOp.ret.success
    /\ secretStorage[ACCESS_TOKEN_KEY] # None
    /\ secretStorage[REFRESH_TOKEN_KEY] # None
    /\ secretStorage[USER_KEY] = None
    /\ InMemory(Current) = <<NULL, NULL, NULL>>

IsProfileRequest(e) == e.ep = "/api/v1/profile"
IsRefreshRequest(e) == e.ep = "/api/v1/auth/refresh"
ProfileRequests == SelectSeq(authLog, IsProfileRequest)
RefreshRequests == SelectSeq(authLog, IsRefreshRequest)
Succeeded(e) == ~e.threw /\ e.status >= 200 /\ e.status <= 299
UserPersisted == secretStorage[USER_KEY] = Some(JSONstringify(currentUser))

C11_WitnessRefreshFailed ==
    /\ authOp.op = "checkAuthStatus"
    /\ authLog # <<>>
    /\ authLog[1].status = 401
    /\ Len(RefreshRequests) = 1
    /\ ~Succeeded(RefreshRequests[1])
    /\ Len(ProfileRequests) = 1
    /\ ~authOp.ret.success

C11_WitnessRetryFailed ==
    /\ authOp.op = "checkAuthStatus"
    /\ Len(ProfileRequests) = 2
    /\ ProfileRequests[2].status = 401
    /\ SessionAuthenticated(authOp.pre)
    /\ ~authOp.ret.success

\* C12 (the claim): a profile request of checkAuthStatus carries as Bearer the
\* access token the AuthService holds when it is sent: the first one the token
\* before the call, the second one the token the refresh has installed.
C12_ProfileCarriesAccessToken ==
    (authOp.op = "checkAuthStatus" /\ authLog # <<>>) =>
        /\ ProfileRequests[1].bearer = Some(authOp.pre.accessToken)
        /\ (Len(ProfileRequests) = 2 /\ authOp.ret.success) =>
              ProfileRequests[2].bearer = Some(accessToken)

\* C12, the failing case: a session restored from storage is checked with a
\* profile request that has no Authorization header.
C12_WitnessNoBearer ==
    /\ authOp.op = "checkAuthStatus"
    /\ authOp.pre.accessToken = "t1"
    /\ authOp.pre.currentUser = "u1"
    /\ Len(authLog) = 1
    /\ authLog[1].ep = "/api/v1/profile"
    /\ authLog[1].bearer = None

----------------------------------------------------------------------------
(* The selection commands' specification: the host starts selectServer,    *)
(* selectStack and selectServerAndStack at any time; each runs from one    *)
(* await to the next in one step, and the steps of the commands in flight  *)
(* interleave.                                                             *)

Sel == Selection(currentServer, currentStack)

InitSelect ==
    /\ authToken = NULL
    /\ store = {}
    /\ fsOp = Idle
    /\ fsLog = <<>>
    /\ lastWrite = None
    /\ \E s \in {NoSession, Session("u1", "t1", "r1", NoSecrets, TRUE)} :
          /\ currentUser = s.currentUser
          /\ accessToken = s.accessToken
          /\ refreshToken = s.refreshToken
          /\ secretStorage = s.secretStorage
          /\ authContext = s.authContext
    /\ authOp = AuthIdle
    /\ authLog = <<>>
    /\ treeKind \in TreeKinds
    /\ currentServer = None
    /\ currentStack = None
    /\ cmd = [i \in Commands |-> NoCommand]
    /\ selOp = NoStep
    /\ treeOp = NoTreeOp
    /\ filesOp = NoFilesOp
    /\ InitRest

\* Command i has run to its next await, or to its end (c = NoCommand), and has
\* left the selection sel; a command in flight whose selection was changed
\* under it is marked
Stepped(i, c, sel, step) ==
    /\ currentServer' = sel.server
    /\ currentStack' = sel.stack
    /\ cmd' = [j \in Commands |->
                 IF j = i THEN c
                 ELSE IF sel # Sel /\ cmd[j].pc # "idle"
                 THEN [cmd[j] EXCEPT !.disturbed = TRUE]
                 ELSE cmd[j]]
    /\ selOp' = step
    /\ UNCHANGED <<treeKind, treeOp, filesOp>>
    /\ UNCHANGED restVars
    /\ UNCHANGED fsVars
    /\ UNCHANGED authVars

\* The slot a command that starts is given
FreeSlot(i) == cmd[i].pc = "idle" /\ \A j \in Commands : j < i => cmd[j].pc # "idle"

Began(i, kind, pc, server, rejected) ==
    IF rejected
    THEN Stepped(i, NoCommand, Sel,
                 Step(i, Command(kind, "idle", None, None, FALSE), "start", "rejected",
                      None, None, Sel, None))
    ELSE Stepped(i, Command(kind, pc, server, None, FALSE), Sel,
                 Step(i, Command(kind, pc, server, None, FALSE), "start", "pending",
                      server, None, Sel, None))

SelectServerStart ==
    \E i \in Commands :
        /\ FreeSlot(i)
        /\ Began(i, "selectServer", "servers", None, ~SessionAuthenticated(Current))

SelectStackStart ==
    \E i \in Commands :
        /\ FreeSlot(i)
        /\ Began(i, "selectStack", "stacks", currentServer,
                 ~SessionAuthenticated(Current) \/ currentServer = None)

SelectServerAndStackStart ==
    \E i \in Commands :
        /\ FreeSlot(i)
        /\ Began(i, "selectServerAndStack", "servers", None, ~SessionAuthenticated(Current))

\* The command ends without touching the selection
Ended(i, step, outcome) ==
    Stepped(i, NoCommand, Sel, Step(i, cmd[i], step, outcome, cmd[i].server, None, Sel, None))

\* The command goes on to its next await
Suspended(i, c, step) ==
    Stepped(i, c, Sel, Step(i, c, step, "pending", c.server, None, Sel, None))

\* The command ends with its calls of setCurrentServer and setCurrentStack
Selected(i, step, outcome, server, stack, sel) ==
    Stepped(i, NoCommand, sel,
            Step(i, cmd[i], step, outcome, Some(server), stack, Sel,
                 Some(setCurrentServer(treeKind, Sel, Some(server)))))

\* GET /api/v1/servers has answered
ServersFetched ==
    \E i \in Commands, reply \in ServersReplies :
        /\ cmd[i].pc = "servers"
        /\ IF ~reply.ok THEN Ended(i, "servers", "failed")
           ELSE IF reply.items = {} THEN Ended(i, "servers", "empty")
           ELSE Suspended(i, [cmd[i] EXCEPT !.pc = "pickServer",
                                            !.seen = IF cmd[i].kind = "selectServerAndStack"
                                                     THEN currentServer ELSE None],
                          "servers")

\* The server pick has been answered
ServerPicked ==
    \E i \in Commands, pick \in {None} \cup {Some(x) : x \in ServerIds} :
        /\ cmd[i].pc = "pickServer"
        /\ IF pick = None THEN Ended(i, "pickServer", "cancelled")
           ELSE IF cmd[i].kind = "selectServer"
           THEN Selected(i, "pickServer", "selected", pick[1], None,
                         selectServerPicked(treeKind, Sel, pick[1]))
           ELSE Suspended(i, [cmd[i] EXCEPT !.pc = "stacks", !.server = pick], "pickServer")

\* GET /api/v1/servers/{id}/stacks has answered
StacksFetched ==
    \E i \in Commands :
        /\ cmd[i].pc = "stacks"
        /\ \E reply \in StacksReplies(cmd[i].server[1]) :
              IF ~reply.ok THEN Ended(i, "stacks", "failed")
              ELSE IF reply.items # {}
              THEN Suspended(i, [cmd[i] EXCEPT !.pc = "pickStack"], "stacks")
              ELSE IF cmd[i].kind = "selectStack" THEN Ended(i, "stacks", "empty")
              ELSE Selected(i, "stacks", "serverOnly", cmd[i].server[1], None,
                            noStacksAvailable(treeKind, Sel, cmd[i].server[1]))

\* The stack pick has been answered
StackPicked ==
    \E i \in Commands :
        /\ cmd[i].pc = "pickStack"
        /\ \E pick \in {None} \cup {Some(x) : x \in StacksOf(cmd[i].server[1])} :
              IF cmd[i].kind = "selectStack"
              THEN IF pick = None THEN Ended(i, "pickStack", "cancelled")
                   ELSE Stepped(i, NoCommand, selectStackPicked(Sel, pick[1]),
                                Step(i, cmd[i], "pickStack", "selected", cmd[i].server, pick,
                                     Sel, None))
              ELSE IF pick # None
              THEN Selected(i, "pickStack", "selected", cmd[i].server[1], pick,
                            serverAndStackPicked(treeKind, Sel, cmd[i].server[1], pick[1]))
              ELSE IF cmd[i].server # cmd[i].seen
              THEN Selected(i, "pickStack", "cancelled", cmd[i].server[1], None,
                            stackPickCancelled(treeKind, Sel, cmd[i].server[1], cmd[i].seen))
              ELSE Stepped(i, NoCommand,
                           stackPickCancelled(treeKind, Sel, cmd[i].server[1], cmd[i].seen),
                           Step(i, cmd[i], "pickStack", "cancelled", cmd[i].server, None,
                                Sel, None))

NextSelect ==
    \/ SelectServerStart
    \/ SelectStackStart
    \/ SelectServerAndStackStart
    \/ ServersFetched
    \/ ServerPicked
    \/ StacksFetched
    \/ StackPicked

SpecSelect == InitSelect /\ [][NextSelect]_vars

----------------------------------------------------------------------------
(* Properties of the selection *)

\* The step that ran last ended a command by selecting a server and no stack
ServerOnlySelected ==
    \/ selOp.kind = "selectServer" /\ selOp.outcome = "selected"
    \/ selOp.kind = "selectServerAndStack" /\ selOp.outcome = "serverOnly"
    \/ selOp.kind = "selectServerAndStack" /\ selOp.step = "pickStack"
          /\ selOp.outcome = "cancelled" /\ selOp.atSet # None

\* A stack that was null is non-null only by a stack pick, and is the stack picked
StackSetOnlyByPick ==
    (selOp.before.stack = None /\ currentStack # None) =>
        /\ selOp.step = "pickStack"
        /\ selOp.outcome = "selected"
        /\ currentStack = selOp.stack

\* C13 (the claim): right after every call of setCurrentServer the current
\* stack is null; when selectServer, or selectServerAndStack without a stack,
\* has selected a server, the current stack is null; and a null stack becomes
\* non-null only by a stack pick.
C13_NewServerClearsStack ==
    /\ selOp.atSet # None => selOp.atSet[1].stack = None
    /\ ServerOnlySelected => (currentServer = selOp.server /\ currentStack = None)
    /\ StackSetOnlyByPick

\* C13 (amended): the same, with the call of setCurrentServer being that of
\* StackTreeDataProvider; BerthTreeDataProvider.setCurrentServer leaves the
\* stack, and it is the command's setCurrentStack(null) that clears it.
C13_NewServerClearsStackByCommand ==
    /\ (selOp.atSet # None /\ treeKind = "StackTreeDataProvider") => selOp.atSet[1].stack = None
    /\ ServerOnlySelected => (currentServer = selOp.server /\ currentStack = None)
    /\ StackSetOnlyByPick

\* C13, its cases: over a BerthTreeDataProvider, selectServer picks another
\* server while a stack is selected; over a StackTreeDataProvider,
\* selectServerAndStack finds the picked server without stacks.
C13_Witness ==
    /\ treeKind = "BerthTreeDataProvider"
    /\ selOp.kind = "selectServer"
    /\ selOp.outcome = "selected"
    /\ selOp.before = Selection(Some(1), Some(<<"a">>))
    /\ Sel = Selection(Some(2), None)

C13_WitnessNoStacks ==
    /\ treeKind = "StackTreeDataProvider"
    /\ selOp.outcome = "serverOnly"
    /\ selOp.before.stack # None
    /\ selOp.atSet = Some(Selection(Some(3), None))
    /\ Sel = Selection(Some(3), None)

\* C14 (the claim): a current stack has a current server, and is one of the
\* stacks listed for it.
C14_StackOfCurrentServer ==
    currentStack # None =>
        /\ currentServer # None
        /\ currentStack[1] \in StacksOf(currentServer[1])

\* C14, the failing case: selectStack, suspended at its pick over the stacks of
\* server 1, sets stack a after another command has made server 2 current.
C14_WitnessStaleStack ==
    /\ selOp.kind = "selectStack"
    /\ selOp.outcome = "selected"
    /\ selOp.disturbed
    /\ Sel = Selection(Some(2), Some(<<"a">>))

\* C14 for a selection that no command has changed under another
C14_Undisturbed ==
    (selOp.outcome = "selected" /\ ~selOp.disturbed) =>
        (currentStack # None => /\ currentServer # None
                                /\ currentStack[1] \in StacksOf(currentServer[1]))

C15_WitnessSameServer ==
    /\ selOp.kind = "selectServerAndStack"
    /\ ~selOp.disturbed
    /\ selOp.step = "pickStack"
    /\ selOp.outcome = "cancelled"
    /\ selOp.server = Some(1)
    /\ selOp.before = Selection(Some(1), Some(<<"b">>))
    /\ Sel = Selection(Some(1), Some(<<"b">>))

C15_WitnessFetchFailed ==
    /\ selOp.kind = "selectServerAndStack"
    /\ selOp.step = "stacks"
    /\ selOp.outcome = "failed"
    /\ selOp.server = Some(2)
    /\ Sel = Selection(Some(1), Some(<<"a">>))

----------------------------------------------------------------------------
(* Properties of the adapter: the parts of the URI *)

\* The authority is a non-negative decimal integer: digits and nothing else
DecimalAuthority(uri) ==
    /\ uri.authority # <<>>
    /\ \A i \in DOMAIN uri.authority : uri.authority[i] \in Digits

\* C19: an operation on a URI whose authority is not a non-negative decimal
\* integer fails, and sends no request.
C19_InvalidServerIdRejected ==
    (fsOp.op \in AdapterOps /\ ~DecimalAuthority(fsOp.uri)) =>
        /\ ~fsOp.ok
        /\ RequestsSent = <<>>

\* "-1" is taken for the server -1, and the request is sent
C19_WitnessNegative ==
    /\ fsOp.op = "readDirectory"
    /\ fsOp.uri.authority = <<"-", "1">>
    /\ Len(RequestsSent) = 1
    /\ RequestsSent[1].req.sid = 0 - 1

\* "1x" is taken for the server 1, and the operation succeeds
C19_WitnessTrailing ==
    /\ fsOp.op = "readDirectory"
    /\ fsOp.uri.authority = <<"1", "x">>
    /\ Len(RequestsSent) = 1
    /\ RequestsSent[1].req.sid = 1
    /\ fsOp.ok

\* An authority without leading digits is rejected before any request
C19_NotANumberRejected ==
    (fsOp.op \in AdapterOps /\ isNaN(parseInt(fsOp.uri.authority))) =>
        /\ ~fsOp.ok
        /\ RequestsSent = <<>>

C19_WitnessNotANumber ==
    /\ fsOp.op = "readDirectory"
    /\ authToken # NULL
    /\ fsOp.uri.authority = <<"x">>
    /\ fsOp.err = Wrap("Failed to read directory", InvalidServerId)

\* The URI names no stack, or names a stack and no path in it
NoStackSegment(uri) == Len(PathParts(uri)) = 0
StackRootOnly(uri) == Len(PathParts(uri)) = 1

\* The operations that need a path in the stack
InStackOps == {"readFile", "writeFile", "createDirectory", "delete", "rename"}

\* The URIs of the operation: rename has two
UrisOf(op) == IF op.op = "rename" THEN {op.uri, op.newUri} ELSE {op.uri}

\* C20: an operation on a URI with no stack segment fails; readFile, writeFile,
\* createDirectory, delete and rename also fail on a URI that names only the
\* stack root; in both cases no request is sent and no change is announced.
C20_MalformedUriRejected ==
    (/\ fsOp.op \in AdapterOps
     /\ \/ \E uri \in UrisOf(fsOp) : NoStackSegment(uri)
        \/ fsOp.op \in InStackOps /\ \E uri \in UrisOf(fsOp) : StackRootOnly(uri))
    => /\ ~fsOp.ok
       /\ RequestsSent = <<>>
       /\ EventsFired = <<>>

C20_Witness ==
    /\ fsOp.op = "delete"
    /\ authToken # NULL
    /\ fsOp.uri = [authority |-> <<"1">>, path |-> <<"/", "a">>]
    /\ \E r \in store : r.path = <<"a">>
    /\ fsOp.err = Wrap("Failed to delete", InvalidFormat)
    /\ fsLog = <<>>

C20_WitnessNoStack ==
    /\ fsOp.op = "stat"
    /\ authToken # NULL
    /\ fsOp.uri = [authority |-> <<"1">>, path |-> <<"/">>]
    /\ ~fsOp.ok
    /\ fsLog = <<>>

C20_WitnessRenameTarget ==
    /\ fsOp.op = "rename"
    /\ authToken # NULL
    /\ Len(PathParts(fsOp.uri)) = 2
    /\ StackRootOnly(fsOp.newUri)
    /\ ~fsOp.ok
    /\ fsLog = <<>>

\* stat and readDirectory serve the stack root
C20_WitnessStackRootListed ==
    /\ fsOp.op = "readDirectory"
    /\ StackRootOnly(fsOp.uri)
    /\ fsOp.ok
    /\ Len(RequestsSent) = 1

\* The backend answered a request of the operation with 401
AnsweredUnauthorized == \E i \in DOMAIN RequestsSent : RequestsSent[i].status = 401

\* C22: an operation of the adapter that the backend answers with 401 fails
\* with the 'Unavailable' condition.
C22_UnauthorizedIsUnavailable ==
    (fsOp.op \in AdapterOps /\ AnsweredUnauthorized) =>
        /\ ~fsOp.ok
        /\ fsOp.err.kind = "Unavailable"

\* stat reports file not found
C22_WitnessFileNotFound ==
    /\ fsOp.op = "stat"
    /\ AnsweredUnauthorized
    /\ fsOp.err = FileNotFound

\* the other operations report a generic error that quotes the message
C22_WitnessGeneric ==
    /\ fsOp.op = "writeFile"
    /\ AnsweredUnauthorized
    /\ fsOp.err = Err("Error", "Failed to save file", "Authentication failed", 401)

\* An operation answered with 401 fails, and never as 'Unavailable'
C22_UnauthorizedFails ==
    (fsOp.op \in AdapterOps /\ AnsweredUnauthorized) =>
        /\ ~fsOp.ok
        /\ fsOp.err.kind \in {"FileNotFound", "Error"}

----------------------------------------------------------------------------
(* The tree providers under their dialogs: SpecTree *)

TreeItems ==
    {TreeItem("file", Some(TreeEntry(<<"a">>, TRUE, <<"0", "7", "5", "5">>)),
              Some(1), Some(<<"a">>)),
     TreeItem("file", Some(TreeEntry(<<"a", "/", "b">>, FALSE, <<"0", "6", "4", "4">>)),
              Some(1), Some(<<"a">>)),
     TreeItem("file", Some(TreeEntry(<<"b">>, FALSE, <<"0", "6", "4", "4">>)),
              Some(1), Some(<<"a">>)),
     TreeItem("stack", None, Some(1), Some(<<"a">>))}

\* What the input box of chmodFile resolves with: undefined when dismissed, or
\* a string its validateInput accepts (/^[0-7]{3,4}$/)
ModeInputs == {None, Some(<<"0", "6", "4", "4">>), Some(<<"7", "5", "5">>),
               Some(<<"0", "7", "0", "0">>)}

\* What the input boxes of chownFile resolve with: undefined when dismissed, or
\* any string
OwnerInputs == {None, Some(<<>>), Some(<<" ">>), Some(<<"1", "0">>), Some(<<"0">>), Some(<<"x">>)}
GroupInputs == {None, Some(<<>>), Some(<<" ", "5">>), Some(<<"x">>)}

\* What the quick pick resolves with: undefined when dismissed, or the value of
\* 'Apply to this folder only' (false) or of 'Apply recursively to all contents' (true)
Choices == {None, Some(FALSE), Some(TRUE)}

InitTree ==
    /\ authToken \in {NULL, "t1"}
    /\ store \in InitialStores
    /\ fsOp = Idle
    /\ fsLog = <<>>
    /\ lastWrite = None
    /\ \E s \in {NoSession, Session("u1", "t1", "r1", NoSecrets, TRUE)} :
          /\ currentUser = s.currentUser
          /\ accessToken = s.accessToken
          /\ refreshToken = s.refreshToken
          /\ secretStorage = s.secretStorage
          /\ authContext = s.authContext
    /\ authOp = AuthIdle
    /\ authLog = <<>>
    /\ treeKind \in TreeKinds
    /\ \E sel \in {NoSelection, Selection(Some(1), None), Selection(Some(1), Some(<<"a">>))} :
          /\ currentServer = sel.server
          /\ currentStack = sel.stack
    /\ cmd = [i \in Commands |-> NoCommand]
    /\ selOp = NoStep
    /\ treeOp = NoTreeOp
    /\ filesOp = NoFilesOp
    /\ InitRest

\* A handler of the tree has run: done is what it did
TreeRan(op, done) ==
    /\ treeOp' = op
    /\ store' = done.store
    /\ authToken' = done.authToken
    /\ UNCHANGED <<fsOp, fsLog, lastWrite>>
    /\ UNCHANGED authVars
    /\ UNCHANGED <<treeKind, currentServer, currentStack, cmd, selOp, filesOp>>
    /\ UNCHANGED restVars

ChmodFileAction ==
    /\ treeOp = NoTreeOp
    /\ \E item \in TreeItems, newMode \in ModeInputs, choice \in Choices, fault \in Responses :
          TreeRan(TreeOp("chmodFile", item, newMode, None, None, choice,
                         TreeChmodFile(treeKind, Sel, item, newMode, choice, authToken,
                                       accessToken, fault)),
                  TreeChmodFile(treeKind, Sel, item, newMode, choice, authToken,
                                accessToken, fault))

ChownFileAction ==
    /\ treeOp = NoTreeOp
    /\ \E item \in TreeItems, ownerInput \in OwnerInputs, groupInput \in GroupInputs,
          choice \in Choices, fault \in Responses :
          TreeRan(TreeOp("chownFile", item, None, ownerInput, groupInput, choice,
                         TreeChownFile(treeKind, Sel, item, ownerInput, groupInput, choice,
                                       authToken, accessToken, fault)),
                  TreeChownFile(treeKind, Sel, item, ownerInput, groupInput, choice,
                                authToken, accessToken, fault))

\* The properties have looked at the run
TreeSettle ==
    /\ treeOp # NoTreeOp
    /\ treeOp' = NoTreeOp
    /\ UNCHANGED fsVars
    /\ UNCHANGED authVars
    /\ UNCHANGED <<treeKind, currentServer, currentStack, cmd, selOp, filesOp>>
    /\ UNCHANGED restVars

NextTree == ChmodFileAction \/ ChownFileAction \/ TreeSettle

SpecTree == InitTree /\ [][NextTree]_vars

----------------------------------------------------------------------------
(* Properties of the tree providers *)

TreeRequests == SelectSeq(treeOp.log, IsRequest)

\* The file entry of the item the handler ran on serves a directory
OnDirectory == treeOp.item.fileEntry # None /\ treeOp.item.fileEntry[1].isDirectory

\* C16: the recursive flag of every chmod and chown request the tree sends is the
\* user's choice: false for 'this folder only', true for 'apply recursively',
\* false for a target that is not a directory; a cancelled choice sends no request.
C16_RecursiveIsTheChoice ==
    treeOp.op \in {"chmodFile", "chownFile"} =>
        /\ \A i \in DOMAIN TreeRequests :
              /\ TreeRequests[i].req.ep = (IF treeOp.op = "chmodFile" THEN "chmod" ELSE "chown")
              /\ IF OnDirectory
                 THEN /\ treeOp.choice # None
                      /\ TreeRequests[i].req.arg[1].recursive = treeOp.choice[1]
                 ELSE TreeRequests[i].req.arg[1].recursive = FALSE
        /\ (OnDirectory /\ treeOp.choice = None) => TreeRequests = <<>>

C16_Witness ==
    /\ treeOp.op = "chownFile"
    /\ treeKind = "BerthTreeDataProvider"
    /\ OnDirectory
    /\ treeOp.choice = Some(TRUE)
    /\ Len(TreeRequests) = 1
    /\ TreeRequests[1].req.arg[1].recursive = TRUE

C16_WitnessThisFolderOnly ==
    /\ treeOp.op = "chmodFile"
    /\ treeKind = "StackTreeDataProvider"
    /\ OnDirectory
    /\ treeOp.choice = Some(FALSE)
    /\ Len(TreeRequests) = 1
    /\ TreeRequests[1].req.arg[1].recursive = FALSE

C16_WitnessFile ==
    /\ treeOp.op = "chmodFile"
    /\ treeKind = "BerthTreeDataProvider"
    /\ treeOp.item.fileEntry # None
    /\ ~OnDirectory
    /\ treeOp.choice = Some(TRUE)
    /\ Len(TreeRequests) = 1
    /\ TreeRequests[1].req.arg[1].recursive = FALSE

C16_WitnessCancelled ==
    /\ treeOp.op = "chmodFile"
    /\ OnDirectory
    /\ treeOp.newMode = Some(<<"7", "5", "5">>)
    /\ treeOp.choice = None
    /\ TreeRequests = <<>>

\* C17: every chown request carries an owner id or a group id.
C17_ChownNamesOwnerOrGroup ==
    \A i \in DOMAIN TreeRequests :
        TreeRequests[i].req.ep = "chown" =>
            \/ TreeRequests[i].req.arg[1].owner_id # None
            \/ TreeRequests[i].req.arg[1].group_id # None

C17_Witness ==
    /\ treeOp.op = "chownFile"
    /\ treeOp.ownerInput = Some(<<" ">>)
    /\ Len(TreeRequests) = 1
    /\ TreeRequests[1].req.arg[1].owner_id = None
    /\ TreeRequests[1].req.arg[1].group_id = Some(5)

C17_WitnessOwnerZero ==
    /\ treeOp.op = "chownFile"
    /\ treeOp.groupInput = Some(<<>>)
    /\ Len(TreeRequests) = 1
    /\ TreeRequests[1].req.arg[1].owner_id = Some(0)
    /\ TreeRequests[1].req.arg[1].group_id = None

C17_WitnessNeitherGiven ==
    /\ treeOp.op = "chownFile"
    /\ treeOp.item.fileEntry # None
    /\ treeOp.ownerInput = Some(<<" ">>)
    /\ treeOp.groupInput = Some(<<>>)
    /\ TreeRequests = <<>>

----------------------------------------------------------------------------
(* FilesService under its callers: SpecFiles *)

\* The paths FilesService is called with, relative to the stack
FilePaths == {<<"a">>, <<"a", "/", "b">>, <<"b">>}
DirPaths == {None, Some(<<>>), Some(<<"a">>), Some(<<"b">>)}
FileTexts == {TextDecode(<<65>>), TextDecode(<<195, 169>>)}
StackNames == {<<"a">>, <<"x">>}

InitFiles ==
    /\ authToken \in {NULL, "t1"}
    /\ store \in InitialStores
    /\ fsOp = Idle
    /\ fsLog = <<>>
    /\ lastWrite = None
    /\ currentUser = NULL
    /\ accessToken = NULL
    /\ refreshToken = NULL
    /\ secretStorage = NoSecrets
    /\ authContext = FALSE
    /\ authOp = AuthIdle
    /\ authLog = <<>>
    /\ InitUi

\* A call of FilesService has run
FilesRan(op, called) ==
    /\ filesOp' = FilesOp(op, called)
    /\ store' = called.store
    /\ UNCHANGED <<authToken, fsOp, fsLog, lastWrite>>
    /\ UNCHANGED authVars
    /\ UNCHANGED <<treeKind, currentServer, currentStack, cmd, selOp, treeOp>>
    /\ UNCHANGED restVars

ListDirectoryCall ==
    /\ filesOp = NoFilesOp
    /\ \E stack \in StackNames, path \in DirPaths, fault \in Responses :
          FilesRan("listDirectory", listDirectory(1, stack, path, fault))

ReadFileCall ==
    /\ filesOp = NoFilesOp
    /\ \E stack \in StackNames, path \in FilePaths, fault \in Responses :
          FilesRan("readFile", readFile(1, stack, path, fault))

WriteFileCall ==
    /\ filesOp = NoFilesOp
    /\ \E stack \in StackNames, path \in FilePaths, content \in FileTexts, fault \in Responses :
          FilesRan("writeFile", writeFile(1, stack, path, content, fault))

CreateDirectoryCall ==
    /\ filesOp = NoFilesOp
    /\ \E stack \in StackNames, path \in FilePaths, fault \in Responses :
          FilesRan("createDirectory", createDirectory(1, stack, path, fault))

DeleteFileCall ==
    /\ filesOp = NoFilesOp
    /\ \E stack \in StackNames, path \in FilePaths, fault \in Responses :
          FilesRan("deleteFile", deleteFile(1, stack, path, fault))

RenameFileCall ==
    /\ filesOp = NoFilesOp
    /\ \E stack \in StackNames, oldPath \in FilePaths, newPath \in FilePaths, fault \in Responses :
          FilesRan("renameFile", renameFile(1, stack, oldPath, newPath, fault))

CopyFileCall ==
    /\ filesOp = NoFilesOp
    /\ \E stack \in StackNames, sourcePath \in FilePaths, targetPath \in FilePaths,
          fault \in Responses :
          FilesRan("copyFile", copyFile(1, stack, sourcePath, targetPath, fault))

UploadFileCall ==
    /\ filesOp = NoFilesOp
    /\ \E stack \in StackNames, path \in {<<>>, <<"a">>}, file \in FileTexts,
          filename \in Names, fault \in Responses :
          FilesRan("uploadFile", uploadFile(1, stack, path, file, filename, fault))

DownloadFileCall ==
    /\ filesOp = NoFilesOp
    /\ \E stack \in StackNames, path \in FilePaths, fault \in Responses :
          FilesRan("downloadFile", downloadFile(1, stack, path, fault))

ChmodFileCall ==
    /\ filesOp = NoFilesOp
    /\ \E stack \in StackNames, path \in FilePaths, recursive \in BOOLEAN, fault \in Responses :
          FilesRan("chmodFile",
                   chmodFile(1, stack, path, ChmodRequest(<<"0", "7", "5", "5">>, recursive),
                             fault))

ChownFileCall ==
    /\ filesOp = NoFilesOp
    /\ \E stack \in StackNames, path \in FilePaths, recursive \in BOOLEAN, fault \in Responses :
          FilesRan("chownFile",
                   chownFile(1, stack, path, ChownRequest(Some(10), None, recursive), fault))

GetDirectoryStatsCall ==
    /\ filesOp = NoFilesOp
    /\ \E stack \in StackNames, path \in DirPaths, fault \in Responses :
          FilesRan("getDirectoryStats", getDirectoryStats(1, stack, path, fault))

\* The caller has taken the outcome
FilesSettle ==
    /\ filesOp # NoFilesOp
    /\ filesOp' = NoFilesOp
    /\ UNCHANGED fsVars
    /\ UNCHANGED authVars
    /\ UNCHANGED <<treeKind, currentServer, currentStack, cmd, selOp, treeOp>>
    /\ UNCHANGED restVars

NextFiles ==
    \/ ListDirectoryCall
    \/ ReadFileCall
    \/ WriteFileCall
    \/ CreateDirectoryCall
    \/ DeleteFileCall
    \/ RenameFileCall
    \/ CopyFileCall
    \/ UploadFileCall
    \/ DownloadFileCall
    \/ ChmodFileCall
    \/ ChownFileCall
    \/ GetDirectoryStatsCall
    \/ FilesSettle

SpecFiles == InitFiles /\ [][NextFiles]_vars

----------------------------------------------------------------------------
(* Properties of FilesService *)

FilesOps ==
    {"listDirectory", "readFile", "writeFile", "createDirectory", "deleteFile", "renameFile",
     "copyFile", "uploadFile", "downloadFile", "chmodFile", "chownFile", "getDirectoryStats"}

\* The message of the error of a failed call when the response names none
GenericMessage ==
    [op \in FilesOps |->
        CASE op = "listDirectory" -> "Failed to list directory"
          [] op = "readFile" -> "Failed to read file"
          [] op = "writeFile" -> "Failed to write file"
          [] op = "createDirectory" -> "Failed to create directory"
          [] op = "deleteFile" -> "Failed to delete"
          [] op = "renameFile" -> "Failed to rename"
          [] op = "copyFile" -> "Failed to copy"
          [] op = "uploadFile" -> "Failed to upload file"
          [] op = "downloadFile" -> "Failed to download file"
          [] op = "chmodFile" -> "Failed to change permissions"
          [] op = "chownFile" -> "Failed to change ownership"
          [] op = "getDirectoryStats" -> "Failed to get directory stats"]

\* The status of the response to the one request of the call; 0 when fetch threw
StatusMet == filesOp.log[1].status

\* C18: every call of FilesService sends exactly one request; when the response
\* is not a success the call throws, with the message of 401, 403 or 404, or else
\* a message of the response or of the operation, and with the status.
C18_OneRequestAndErrorOnFailure ==
    filesOp.op \in FilesOps =>
        /\ Len(filesOp.log) = 1
        /\ filesOp.log[1].kind = "request"
        /\ (StatusMet # 0 /\ (StatusMet < 200 \/ StatusMet > 299)) =>
              /\ ~filesOp.ok
              /\ filesOp.err.kind = "Error"
              /\ filesOp.err.status = StatusMet
              /\ CASE StatusMet = 401 -> filesOp.err.text = "Authentication failed"
                   [] StatusMet = 403 ->
                        filesOp.err.text = "Access denied - insufficient permissions"
                   [] StatusMet = 404 -> filesOp.err.text = "Resource not found"
                   [] OTHER -> filesOp.err.text \in {GenericMessage[filesOp.op], "disk failure"}
        /\ StatusMet = 0 => ~filesOp.ok
        /\ (StatusMet >= 200 /\ StatusMet <= 299) => filesOp.ok

C18_Witness ==
    /\ filesOp.op = "copyFile"
    /\ Len(filesOp.log) = 1
    /\ StatusMet = 409
    /\ ~filesOp.ok
    /\ filesOp.err.text = "Failed to copy"

C18_WitnessSpecialised ==
    /\ filesOp.op = "getDirectoryStats"
    /\ Len(filesOp.log) = 1
    /\ StatusMet = 403
    /\ filesOp.err.text = "Access denied - insufficient permissions"

C18_WitnessReturned ==
    /\ filesOp.op = "uploadFile"
    /\ Len(filesOp.log) = 1
    /\ StatusMet = 200
    /\ filesOp.ok

----------------------------------------------------------------------------
(* Opening files and stacks: SpecOpen *)

MaxName == 3

\* The characters of the names: letters, digits, and the characters a URI
\* reserves
NameChars == {"a", "1", "4", "#", "?", "%"}

\* The names of files and folders: up to MaxName characters, none of them "/"
SegmentNames == UNION {[1..k -> NameChars] : k \in 1..MaxName}

\* The paths of the file entries: a name, or a name in the folder "a"
EntryPaths == SegmentNames \cup {<<"a", "/">> \o n : n \in SegmentNames}

OpenServerIds == {0, 1, 12}
OpenStackNames == {<<"a">>, <<"a", "1">>}

InitOpen ==
    /\ authToken = NULL
    /\ store = {}
    /\ fsOp = Idle
    /\ fsLog = <<>>
    /\ lastWrite = None
    /\ \E s \in {NoSession, Session("u1", "t1", "r1", NoSecrets, TRUE)} :
          /\ currentUser = s.currentUser
          /\ accessToken = s.accessToken
          /\ refreshToken = s.refreshToken
          /\ secretStorage = s.secretStorage
          /\ authContext = s.authContext
    /\ authOp = AuthIdle
    /\ authLog = <<>>
    /\ treeKind \in TreeKinds
    /\ \E sel \in {NoSelection}
                  \cup {Selection(Some(id), None) : id \in OpenServerIds}
                  \cup {Selection(Some(id), Some(n)) : id \in OpenServerIds, n \in OpenStackNames} :
          /\ currentServer = sel.server
          /\ currentStack = sel.stack
    /\ cmd = [i \in Commands |-> NoCommand]
    /\ selOp = NoStep
    /\ treeOp = NoTreeOp
    /\ filesOp = NoFilesOp
    /\ InitRest

OpenRan(o) ==
    /\ opened' = o
    /\ UNCHANGED <<boot, logins>>
    /\ UNCHANGED fsVars
    /\ UNCHANGED authVars
    /\ UNCHANGED uiVars

OpenFileAction ==
    /\ opened = NoOpened
    /\ \E path \in EntryPaths, isDirectory \in BOOLEAN :
          OpenRan(openFile(Sel, TreeEntry(path, isDirectory, <<"0", "6", "4", "4">>)))

OpenStackInExplorerAction ==
    /\ opened = NoOpened
    /\ \E server \in {None} \cup {Some(id) : id \in OpenServerIds},
          stack \in {None} \cup {Some(n) : n \in OpenStackNames} :
          OpenRan(openStackInExplorer(SessionAuthenticated(Current), Sel, server, stack))

\* The host has opened the URI
OpenSettle ==
    /\ opened # NoOpened
    /\ OpenRan(NoOpened)

NextOpen == OpenFileAction \/ OpenStackInExplorerAction \/ OpenSettle

SpecOpen == InitOpen /\ [][NextOpen]_vars

----------------------------------------------------------------------------
(* Properties of the URIs *)

\* The triple the adapter took is the triple the URI was built from
SameTriple ==
    /\ opened.triple.ok
    /\ opened.triple.serverId = opened.id
    /\ opened.triple.stackName = opened.stackName
    /\ opened.triple.filePath = (IF opened.path = None THEN <<>> ELSE opened.path[1])

\* The URI built again from the adapter's triple is the URI that was opened
SameUri ==
    opened.text = (IF opened.path = None
                   THEN StackUriText(opened.triple.serverId, opened.triple.stackName)
                   ELSE FileUriText(opened.triple.serverId, opened.triple.stackName,
                                    opened.triple.filePath))

\* C21: the URI built from a server id, a stack name and a path gives the
\* adapter the same server id, stack name and path, and building the URI again
\* from these gives the same URI.
C21_UriRoundTrip ==
    opened.op \in {"openFile", "openStackInExplorer"} => SameTriple /\ SameUri

\* A file whose name holds '#': the adapter is given the part before it
C21_WitnessFragment ==
    /\ opened.op = "openFile"
    /\ opened.id = 1
    /\ opened.stackName = <<"a">>
    /\ opened.path = Some(<<"a", "#", "1">>)
    /\ opened.uri.fragment = <<"1">>
    /\ opened.triple.ok
    /\ opened.triple.filePath = <<"a">>

\* A file whose name is a percent escape: the adapter is given the character
C21_WitnessEscape ==
    /\ opened.op = "openFile"
    /\ opened.path = Some(<<"%", "4", "1">>)
    /\ opened.triple.filePath = <<"A">>

\* A name holds none of the characters a URI reserves
Unreserved(name) == \A i \in DOMAIN name : name[i] \notin {"#", "?", "%"}

\* The round trip of the names that hold no '#', no '?' and no '%'
C21_UnreservedRoundTrip ==
    (/\ opened.op \in {"openFile", "openStackInExplorer"}
     /\ Unreserved(opened.stackName)
     /\ opened.path # None => Unreserved(opened.path[1]))
    => SameTriple /\ SameUri

C21_WitnessUnreserved ==
    /\ opened.op = "openFile"
    /\ opened.id = 12
    /\ opened.path = Some(<<"a", "/", "a", "1">>)
    /\ SameTriple
    /\ SameUri

----------------------------------------------------------------------------
(* Activation and the auth commands: SpecBoot *)

\* syncTokenToApiClient: the token of the AuthService, or none
syncTokenToApiClient(access) == IF JsTruthy(access) THEN access ELSE NULL

InitBoot ==
    /\ authToken = NULL
    /\ store \in InitialStores
    /\ fsOp = Idle
    /\ fsLog = <<>>
    /\ lastWrite = None
    /\ currentUser = NULL
    /\ accessToken = NULL
    /\ refreshToken = NULL
    /\ secretStorage \in InitialSecrets
    /\ authContext = FALSE
    /\ authOp = AuthIdle
    /\ authLog = <<>>
    /\ treeKind = "StackTreeDataProvider"
    /\ currentServer = None
    /\ currentStack = None
    /\ cmd = [i \in Commands |-> NoCommand]
    /\ selOp = NoStep
    /\ treeOp = NoTreeOp
    /\ filesOp = NoFilesOp
    /\ opened = NoOpened
    /\ boot = Boot("restoring", "none")
    /\ logins = NoLogins

\* A step of initializeAuth or an auth command has run: s is the AuthService
\* after it, token the token of the ApiClient
BootRan(pc, op, s, token) ==
    /\ boot' = Boot(pc, op)
    /\ currentUser' = s.currentUser
    /\ accessToken' = s.accessToken
    /\ refreshToken' = s.refreshToken
    /\ secretStorage' = s.secretStorage
    /\ authContext' = s.authContext
    /\ authToken' = token
    /\ UNCHANGED <<store, fsOp, fsLog, lastWrite, authOp, authLog>>
    /\ UNCHANGED uiVars
    /\ UNCHANGED <<opened, logins>>

\* initializeAuth to its second await: initializeFromStorage has resolved, and
\* an authenticated session is synced to the ApiClient
BootRestore ==
    /\ boot.pc = "restoring"
    /\ IF initializeFromStorage(Current).ret.success
       THEN BootRan("checking", "initializeAuth", initializeFromStorage(Current).s,
                    syncTokenToApiClient(initializeFromStorage(Current).s.accessToken))
       ELSE BootRan("done", "initializeAuth", initializeFromStorage(Current).s, authToken)

\* initializeAuth from its second await: checkAuthStatus has resolved
BootCheck ==
    /\ boot.pc = "checking"
    /\ \E profile \in ProfileResponses, refresh \in RefreshResponses,
          retry \in ProfileResponses, bye \in LogoutResponses :
          BootRan("done", "initializeAuth",
                  checkAuthStatus(Current, profile, refresh, retry, bye).s, authToken)

\* AuthCommands.logout: authService.logout(), then apiClient.clearAuthToken()
LogoutCommand ==
    /\ boot.pc = "done"
    /\ \E resp \in LogoutResponses : BootRan("done", "logout", logout(Current, resp).s, NULL)

\* AuthCommands.login: on success the token of the AuthService, if it has
\* one, is given to the ApiClient
LoginCommand ==
    /\ boot.pc = "done"
    /\ \E resp \in LoginResponses :
          BootRan("done", "login", login(Current, resp).s,
                  IF login(Current, resp).ret.success
                     /\ JsTruthy(login(Current, resp).s.accessToken)
                  THEN login(Current, resp).s.accessToken
                  ELSE authToken)

NextBoot ==
    \/ BootRestore
    \/ BootCheck
    \/ LogoutCommand
    \/ LoginCommand
    \/ StatAction
    \/ ReadDirectoryAction
    \/ Settle

SpecBoot == InitBoot /\ [][NextBoot]_vars

----------------------------------------------------------------------------
(* Properties of activation *)

\* The storage holds a session that initializeFromStorage restores
ValidSessionPersisted == initializeFromStorage(Current).ret.success

\* C23: an operation of the adapter invoked before initializeAuth has restored
\* a valid persisted session does not fail with 'Unavailable'.
C23_WaitsForRestore ==
    (fsOp.op \in AdapterOps /\ boot.pc = "restoring" /\ ValidSessionPersisted) =>
        fsOp.err # Unavailable

C23_WitnessColdStart ==
    /\ boot.pc = "restoring"
    /\ ValidSessionPersisted
    /\ fsOp.op = "stat"
    /\ fsOp.uri = [authority |-> <<"1">>, path |-> <<"/", "a">>]
    /\ fsOp.err = Unavailable
    /\ fsLog = <<>>

\* The same operation after the restore is served
C23_WitnessAfterRestore ==
    /\ boot.pc = "checking"
    /\ fsOp.op = "stat"
    /\ fsOp.uri = [authority |-> <<"1">>, path |-> <<"/", "a">>]
    /\ fsOp.ok

\* Before the restore every operation fails with 'Unavailable', without a request
C23_FailsBeforeRestore ==
    (fsOp.op \in AdapterOps /\ boot.pc = "restoring") =>
        /\ fsOp.err = Unavailable
        /\ fsLog = <<>>

\* C26: when initializeAuth and the auth commands have run to their ends, the
\* ApiClient holds a token exactly if the AuthService is authenticated.
C26_TokenIffAuthenticated ==
    boot.pc = "done" => ((authToken # NULL) <=> SessionAuthenticated(Current))

\* The status check at startup failed and logged out; the gate of the adapter is open
C26_WitnessStaleToken ==
    /\ boot = Boot("done", "initializeAuth")
    /\ ~SessionAuthenticated(Current)
    /\ secretStorage = NoSecrets
    /\ authToken = "t1"
    /\ isAuthenticated

\* After AuthCommands.logout the two agree
C26_AgreeAfterLogout ==
    boot = Boot("done", "logout") => (authToken = NULL /\ ~SessionAuthenticated(Current))

C26_WitnessLogout ==
    /\ boot = Boot("done", "logout")
    /\ secretStorage = NoSecrets
    /\ authToken = NULL

----------------------------------------------------------------------------
(* AuthService.login, one step per await: several calls in flight *)

\* SecretStorage.store(key, value)
StoreSecret(secrets, key, value) == [secrets EXCEPT ![key] = Some(value)]

\* login() returned success with a user for this response
LoginSucceeds(resp) == Ok(resp) /\ ~resp.body.totp_required /\ JsTruthy(resp.body.user)

InitRace ==
    /\ authToken = NULL
    /\ store = {}
    /\ fsOp = Idle
    /\ fsLog = <<>>
    /\ lastWrite = None
    /\ currentUser = NULL
    /\ accessToken = NULL
    /\ refreshToken = NULL
    /\ secretStorage \in InitialSecrets
    /\ authContext = FALSE
    /\ authOp = AuthIdle
    /\ authLog = <<>>
    /\ InitUi

RaceRan(i, pc, resp) ==
    /\ logins' = [logins EXCEPT ![i] = Login(pc, resp)]
    /\ UNCHANGED <<authOp, authLog, opened, boot>>
    /\ UNCHANGED fsVars
    /\ UNCHANGED uiVars

\* login() is called: new ApiClient(), and the request is sent
LoginStart ==
    \E i \in 1..MaxLogins :
        /\ logins[i].pc = "idle"
        /\ RaceRan(i, "post", Threw)
        /\ UNCHANGED <<currentUser, accessToken, refreshToken, secretStorage, authContext>>

\* apiClient.post and response.json() have resolved: the code up to the next
\* await, which is the first store of saveTokensToStorage, the store of
\* saveUserToStorage, or none
LoginResponded ==
    \E i \in 1..MaxLogins, resp \in LoginResponses :
        /\ logins[i].pc = "post"
        /\ authContext' = authContext
        /\ IF resp.threw \/ ~Ok(resp) \/ resp.body.totp_required
           THEN /\ RaceRan(i, "done", resp)
                /\ UNCHANGED <<currentUser, accessToken, refreshToken, secretStorage>>
           ELSE /\ accessToken' = resp.body.access_token
                /\ refreshToken' = resp.body.refresh_token
                /\ IF ~JsTruthy(resp.body.user)
                   THEN /\ RaceRan(i, "done", resp)
                        /\ UNCHANGED <<currentUser, secretStorage>>
                   ELSE /\ currentUser' = resp.body.user
                        /\ IF JsTruthy(resp.body.access_token) /\ JsTruthy(resp.body.refresh_token)
                           THEN /\ secretStorage' = StoreSecret(secretStorage, ACCESS_TOKEN_KEY,
                                                                resp.body.access_token)
                                /\ RaceRan(i, "storedAccess", resp)
                           ELSE /\ secretStorage' = StoreSecret(secretStorage, USER_KEY,
                                                                JSONstringify(resp.body.user))
                                /\ RaceRan(i, "storedUser", resp)

\* saveTokensToStorage resumes after its first store: the second store, of the
\* refresh token it was called with
LoginStoredAccess ==
    \E i \in 1..MaxLogins :
        /\ logins[i].pc = "storedAccess"
        /\ secretStorage' = StoreSecret(secretStorage, REFRESH_TOKEN_KEY,
                                        logins[i].resp.body.refresh_token)
        /\ RaceRan(i, "storedRefresh", logins[i].resp)
        /\ UNCHANGED <<currentUser, accessToken, refreshToken, authContext>>

\* login resumes after saveTokensToStorage: if (this.currentUser)
\* saveUserToStorage(this.currentUser), with the field as it is now
LoginStoredRefresh ==
    \E i \in 1..MaxLogins :
        /\ logins[i].pc = "storedRefresh"
        /\ secretStorage' = IF JsTruthy(currentUser)
                            THEN StoreSecret(secretStorage, USER_KEY, JSONstringify(currentUser))
                            ELSE secretStorage
        /\ RaceRan(i, "storedUser", logins[i].resp)
        /\ UNCHANGED <<currentUser, accessToken, refreshToken, authContext>>

\* login resumes after saveUserToStorage: setContext, and the return
LoginStoredUser ==
    \E i \in 1..MaxLogins :
        /\ logins[i].pc = "storedUser"
        /\ authContext' = TRUE
        /\ RaceRan(i, "done", logins[i].resp)
        /\ UNCHANGED <<currentUser, accessToken, refreshToken, secretStorage>>

NextRace ==
    \/ LoginStart
    \/ LoginResponded
    \/ LoginStoredAccess
    \/ LoginStoredRefresh
    \/ LoginStoredUser

SpecRace == InitRace /\ [][NextRace]_vars

----------------------------------------------------------------------------
(* Properties of racing logins *)

AllLoginsDone == \A i \in 1..MaxLogins : logins[i].pc = "done"

\* A response that carries a whole session: both tokens and the user
WholeSession(resp) ==
    /\ LoginSucceeds(resp)
    /\ JsTruthy(resp.body.access_token)
    /\ JsTruthy(resp.body.refresh_token)

MemoryFrom(resp) ==
    /\ accessToken = resp.body.access_token
    /\ refreshToken = resp.body.refresh_token
    /\ currentUser = resp.body.user

StorageFrom(resp) ==
    /\ secretStorage[ACCESS_TOKEN_KEY] = Some(resp.body.access_token)
    /\ secretStorage[REFRESH_TOKEN_KEY] = Some(resp.body.refresh_token)
    /\ secretStorage[USER_KEY] = Some(JSONstringify(resp.body.user))

\* C24: when the login attempts that raced have all completed, each with a
\* response carrying a whole session, the in-memory access token, refresh
\* token and user and the three persisted entries all come from one and the
\* same response
C24_LastWriterWinsWhole ==
    (AllLoginsDone /\ \A i \in 1..MaxLogins : WholeSession(logins[i].resp))
        => \E i \in 1..MaxLogins : MemoryFrom(logins[i].resp) /\ StorageFrom(logins[i].resp)

\* Two logins with different sessions have completed, and the storage holds
\* the access token of one next to the refresh token of the other
C24_WitnessMixture ==
    /\ AllLoginsDone
    /\ \A i \in 1..MaxLogins : WholeSession(logins[i].resp)
    /\ MemoryFrom(logins[2].resp)
    /\ secretStorage[ACCESS_TOKEN_KEY] = Some("t2")
    /\ secretStorage[REFRESH_TOKEN_KEY] = Some("r1")

\* The fields in memory are assigned without an await in between: after the
\* logins completed they are those of one response
C24_MemoryIsOneResponse ==
    (AllLoginsDone /\ \A i \in 1..MaxLogins : WholeSession(logins[i].resp))
        => \E i \in 1..MaxLogins : MemoryFrom(logins[i].resp)

\* The logins ran one after the other, and the last one won as a whole
C24_WitnessWhole ==
    /\ AllLoginsDone
    /\ \A i \in 1..MaxLogins : WholeSession(logins[i].resp)
    /\ logins[1].resp # logins[2].resp
    /\ MemoryFrom(logins[2].resp)
    /\ StorageFrom(logins[2].resp)

----------------------------------------------------------------------------
(* Properties of login, verifyTOTP and refreshAccessToken *)

\* The one request of the method was answered, and not with a 2xx status
Rejected == Len(authLog) = 1 /\ ~authLog[1].threw /\ ~Succeeded(authLog[1])

\* The one request of the method could not be sent or answered
NetworkError == Len(authLog) = 1 /\ authLog[1].threw

\* C25: a login the backend rejects clears the session in memory, reports the
\* failure, and leaves the persisted entries as they were
C25_RejectedLoginClears ==
    (authOp.op = "login" /\ Rejected) =>
        /\ InMemory(Current) = <<NULL, NULL, NULL>>
        /\ ~authOp.ret.success
        /\ secretStorage = authOp.pre.secretStorage

\* C25, the failing case: a login is rejected while a session is held in
\* memory, and the session is still held after it
C25_WitnessSessionKept ==
    /\ authOp.op = "login"
    /\ Rejected
    /\ ~authOp.ret.success
    /\ InMemory(authOp.pre) = <<"u1", "t1", "r1">>
    /\ InMemory(Current) = <<"u1", "t1", "r1">>
    /\ SessionAuthenticated(Current)

\* C25, what the code does: the failure is reported with the message of the
\* backend and nothing is touched, in memory or in the storage
C25_RejectedLoginChangesNothing ==
    (authOp.op = "login" /\ Rejected) =>
        /\ ~authOp.ret.success
        /\ authOp.ret.message = "Invalid credentials"
        /\ Current = authOp.pre

\* C27: a login that returns success = false leaves the access token, the
\* refresh token and the current user as they were before the call
C27_FailedLoginLeavesMemory ==
    (authOp.op = "login" /\ ~authOp.ret.success) => InMemory(Current) = InMemory(authOp.pre)

\* C27, the failing case: a 2xx response without a user; login fails, and the
\* tokens of the session in memory are those of the response
C27_WitnessTokensReplaced ==
    /\ authOp.op = "login"
    /\ ~authOp.ret.success
    /\ authOp.ret.message = "Login failed - invalid response format"
    /\ InMemory(authOp.pre) = <<"u1", "t1", "r1">>
    /\ InMemory(Current) = <<"u1", "t2", "r2">>

\* C27, the same in verifyTOTP
C27_WitnessTOTPTokensReplaced ==
    /\ authOp.op = "verifyTOTP"
    /\ ~authOp.ret.success
    /\ InMemory(authOp.pre) = <<"u1", "t1", "r1">>
    /\ InMemory(Current) = <<"u1", "t2", "r2">>

\* C27 for the two other causes: a non-success response and a network error
C27_RefusedLoginLeavesMemory ==
    (authOp.op \in {"login", "verifyTOTP"} /\ (Rejected \/ NetworkError)) =>
        /\ ~authOp.ret.success
        /\ InMemory(Current) = InMemory(authOp.pre)

\* The persisted tokens and user are the ones in memory
StorageIsMemory ==
    /\ secretStorage[ACCESS_TOKEN_KEY] = Some(accessToken)
    /\ secretStorage[REFRESH_TOKEN_KEY] = Some(refreshToken)
    /\ currentUser \in Users
    /\ secretStorage[USER_KEY] = Some(JSONstringify(currentUser))

\* login or verifyTOTP returned success with a user, or refreshAccessToken true
Renewed ==
    \/ authOp.op \in {"login", "verifyTOTP"} /\ authOp.ret.success /\ authOp.ret.user # UNDEF
    \/ authOp.op = "refreshAccessToken" /\ authOp.ret.success

\* C28: after a login or a verifyTOTP that returned success with a user, and
\* after a refreshAccessToken that returned true, the persisted access token,
\* refresh token and user are the ones in memory
C28_StorageFollowsMemory == Renewed => StorageIsMemory

\* C28, the failing case: the response of a login carries a user and an access
\* token but no refresh token; login succeeds, and the storage keeps the tokens
\* of the earlier session next to the new user
C28_WitnessOlderTokensKept ==
    /\ authOp.op = "login"
    /\ authOp.ret.success
    /\ authOp.ret.user = "u2"
    /\ InMemory(Current) = <<"u2", "t1", UNDEF>>
    /\ secretStorage = saveUserToStorage(saveTokensToStorage(NoSecrets, "t2", "r2"), "u2")
    /\ authOp.pre.secretStorage = saveUserToStorage(saveTokensToStorage(NoSecrets, "t2", "r2"), "u1")

\* C28, the same in refreshAccessToken: it returns true on a response without
\* tokens, and the storage keeps the tokens it replaced in memory
C28_WitnessRefreshWithoutTokens ==
    /\ authOp.op = "refreshAccessToken"
    /\ authOp.ret.success
    /\ InMemory(Current) = <<"u1", UNDEF, UNDEF>>
    /\ secretStorage = saveUserToStorage(saveTokensToStorage(NoSecrets, "t1", "r1"), "u1")

\* C28 for the responses that carry both tokens: the persisted tokens are the
\* ones in memory, and after login and verifyTOTP the user is too
C28_WholeResponseIsPersisted ==
    (Renewed /\ JsTruthy(accessToken) /\ JsTruthy(refreshToken)) =>
        /\ secretStorage[ACCESS_TOKEN_KEY] = Some(accessToken)
        /\ secretStorage[REFRESH_TOKEN_KEY] = Some(refreshToken)
        /\ (authOp.op # "refreshAccessToken") =>
              secretStorage[USER_KEY] = Some(JSONstringify(currentUser))

\* The response of the method's one request asks for the second factor
TotpAsked == Len(authLog) = 1 /\ Succeeded(authLog[1]) /\ authLog[1].totp_required

\* C29: a login whose response requires the second factor returns totpRequired
\* with the temporary token and changes nothing, in memory or in the storage;
\* a verifyTOTP over an unauthenticated session leaves it authenticated exactly
\* when it succeeds
C29_TotpFlow ==
    /\ (authOp.op = "login" /\ TotpAsked) =>
          /\ authOp.ret.success
          /\ authOp.ret.totpRequired
          /\ authOp.ret.temporaryToken = authLog[1].temporary_token
          /\ Current = authOp.pre
    /\ (authOp.op = "verifyTOTP" /\ ~SessionAuthenticated(authOp.pre)) =>
          (SessionAuthenticated(Current) <=> authOp.ret.success)

\* C29, its cases: the login that asks for the second factor, over no session;
\* the verifyTOTP that succeeds; the one that fails
C29_Witness ==
    /\ authOp.op = "login"
    /\ TotpAsked
    /\ authOp.ret.temporaryToken = "tmp"
    /\ ~SessionAuthenticated(Current)
    /\ secretStorage = NoSecrets

C29_WitnessVerified ==
    /\ authOp.op = "verifyTOTP"
    /\ ~SessionAuthenticated(authOp.pre)
    /\ authOp.ret.success
    /\ authLog[1].bearer = Some("tmp")
    /\ InMemory(Current) = <<"u1", "t1", "r1">>
    /\ authContext

C29_WitnessVerifyFailed ==
    /\ authOp.op = "verifyTOTP"
    /\ ~SessionAuthenticated(authOp.pre)
    /\ Rejected
    /\ ~authOp.ret.success
    /\ ~SessionAuthenticated(Current)

----------------------------------------------------------------------------
(* Properties of the adapter's readFile *)

IsRead(e) == e.req.ep = "read"
ReadRequests == SelectSeq(RequestsSent, IsRead)

\* The stat of readFile: the listing of the parent was asked for first, and answered
StatAnswered ==
    /\ Len(RequestsSent) >= 1
    /\ RequestsSent[1].req.ep = "list"
    /\ RequestsSent[1].status = 200

\* C30: readFile of a path in a stack, by an authenticated adapter, asks for
\* the listing that stats the target before anything else; when the stat finds
\* a directory it fails with FileIsADirectory, when it finds nothing (or fails)
\* with FileNotFound, and in both cases no read request is sent; a read request
\* is sent only after a stat that found a file
C30_StatBeforeRead ==
    (/\ fsOp.op = "readFile"
     /\ authToken # NULL
     /\ Len(PathParts(fsOp.uri)) >= 2
     /\ ValidServerId(fsOp.uri)) =>
        /\ Len(RequestsSent) >= 1
        /\ RequestsSent[1].req.ep = "list"
        /\ (StatAnswered /\ \E r \in HeldAt(fsOp.uri) : r.isDirectory) =>
              /\ ~fsOp.ok
              /\ fsOp.err.kind = "FileIsADirectory"
              /\ ReadRequests = <<>>
        /\ (~StatAnswered \/ HeldAt(fsOp.uri) = {}) =>
              /\ ~fsOp.ok
              /\ fsOp.err.kind = "FileNotFound"
              /\ ReadRequests = <<>>
        /\ (ReadRequests # <<>>) =>
              /\ StatAnswered
              /\ \E r \in HeldAt(fsOp.uri) : ~r.isDirectory
              /\ Len(RequestsSent) = 2
              /\ IsRead(RequestsSent[2])

\* C30, its cases: the target is a directory; it is absent; the listing of
\* its parent fails; it is a file, and its content is asked for after the stat
C30_Witness ==
    /\ fsOp.op = "readFile"
    /\ authToken # NULL
    /\ StatAnswered
    /\ \E r \in HeldAt(fsOp.uri) : r.isDirectory
    /\ fsOp.err.kind = "FileIsADirectory"
    /\ Len(RequestsSent) = 1

C30_WitnessAbsent ==
    /\ fsOp.op = "readFile"
    /\ authToken # NULL
    /\ Len(PathParts(fsOp.uri)) >= 2
    /\ StatAnswered
    /\ HeldAt(fsOp.uri) = {}
    /\ fsOp.err.kind = "FileNotFound"
    /\ Len(RequestsSent) = 1

C30_WitnessStatFailed ==
    /\ fsOp.op = "readFile"
    /\ authToken # NULL
    /\ Len(RequestsSent) = 1
    /\ RequestsSent[1].status = 500
    /\ HeldAt(fsOp.uri) # {}
    /\ fsOp.err.kind = "FileNotFound"

C30_WitnessFile ==
    /\ fsOp.op = "readFile"
    /\ fsOp.ok
    /\ Len(RequestsSent) = 2
    /\ RequestsSent[1].req.ep = "list"
    /\ IsRead(RequestsSent[2])
    /\ \E r \in HeldAt(fsOp.uri) : ~r.isDirectory

============================================================================
